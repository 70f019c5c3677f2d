---------------------------- MODULE BeatSetupProofs ----------------------------
(***************************************************************************)
(* Proofs about BeatSetup, for any names, configurations, values, clients  *)
(* and bounds.                                                             *)
(***************************************************************************)
EXTENDS BeatSetup, TLAPS

\* What a loop goes over, and what from_entry() has in hand.
LoopsDefined ==
  /\ pc \in {"get", "save", "task"} => todo \subseteq DOMAIN config
  /\ pc \in {"save", "task"} => cur \in DOMAIN config /\ Wanted(cur) \in Schedule

\* The rows a reload works with were valid when they were read, and stay so
\* in memory.
SnapshotValid == \A n \in Names : snapshot[n].pk # 0 => Valid(snapshot[n])

\* Keys are not used again, and the row that from_schedule() found keeps its
\* kind until it is gone.
KeysFresh ==
  /\ \A id \in Ids : id >= nextId => scheds[id] = NoSchedule
  /\ pc = "save" /\ found # NoId =>
       /\ found < nextId
       /\ scheds[found] # NoSchedule => scheds[found].kind = Wanted(cur).kind

IInv == TypeOK /\ LoopsDefined /\ SnapshotValid /\ KeysFresh /\ RowsConsistent

-----------------------------------------------------------------------------
(* The types of rows.                                                      *)

\* A value of every type makes a row.
LEMMA RowType ==
  ASSUME NEW pk \in Nat, NEW refs \in [Kinds -> Ids \cup {NoId}],
         NEW enabled \in BOOLEAN, NEW one_off \in BOOLEAN, NEW expires \in BOOLEAN,
         NEW expire_seconds \in BOOLEAN, NEW parses \in BOOLEAN
  PROVE  [pk |-> pk, refs |-> refs, enabled |-> enabled, one_off |-> one_off,
          expires |-> expires, expire_seconds |-> expire_seconds,
          parses |-> parses] \in Row
BY Zenon DEF Row

\* A reference of one kind.
LEMMA OnlyType ==
  ASSUME NEW kind, NEW id \in Ids \cup {NoId}
  PROVE  Only(kind, id) \in [Kinds -> Ids \cup {NoId}]
BY DEF Only

\* The absent row and the row of a new task.
LEMMA NoRowType == NoRow \in Row
<1>1. [k \in Kinds |-> NoId] \in [Kinds -> Ids \cup {NoId}] /\ 0 \in Nat
  OBVIOUS
<1>2. QED
  BY <1>1, RowType, Zenon DEF NoRow

LEMMA NewRowType == ASSUME nextPk \in Nat PROVE NewRow \in Row
<1>1. [k \in Kinds |-> NoId] \in [Kinds -> Ids \cup {NoId}]
  OBVIOUS
<1>2. QED
  BY <1>1, RowType, Zenon DEF NewRow

\* An entry of a configuration.
LEMMA EntryType ==
  ASSUME config \in Configs, NEW n \in DOMAIN config
  PROVE  config[n] \in Entry /\ n \in Names
BY ConfigsAssumption

\* What an entry makes of a row is a row.
LEMMA UnpackType ==
  ASSUME config \in Configs, NEW n \in DOMAIN config, NEW old \in Row,
         NEW id \in Ids \cup {NoId}
  PROVE  Unpack(n, old, id) \in Row
<1> DEFINE c == config[n]
           one_off == Given(c.one_off, old.one_off)
           enabled == Given(c.enabled, old.enabled)
           expires == Given(c.expires, old.expires)
<1>1. old.pk \in Nat /\ Only(c.kind, id) \in [Kinds -> Ids \cup {NoId}]
  BY OnlyType DEF Row
<1>2. enabled \in BOOLEAN
  BY Zenon DEF Given, Row
<1>3. one_off \in BOOLEAN
  BY Zenon DEF Given, Row
<1>4. expires \in BOOLEAN
  BY Zenon DEF Given, Row
<1>5. c.expire_seconds \in BOOLEAN /\ TRUE \in BOOLEAN
  BY EntryType, Zenon DEF Entry
<1>6. QED
  <2> DEFINE pk == old.pk
             refs == Only(c.kind, id)
             expire_seconds == c.expire_seconds
             parses == TRUE
  <2>1. pk \in Nat /\ refs \in [Kinds -> Ids \cup {NoId}]
        /\ expire_seconds \in BOOLEAN /\ parses \in BOOLEAN
    BY <1>1, <1>5, Zenon
  <2>2. Unpack(n, old, id)
          = [pk |-> pk, refs |-> refs, enabled |-> enabled, one_off |-> one_off,
             expires |-> expires, expire_seconds |-> expire_seconds,
             parses |-> parses]
    BY Zenon DEF Unpack
  <2> HIDE DEF pk, refs, expire_seconds, parses, enabled, one_off, expires, c
  <2>3. [pk |-> pk, refs |-> refs, enabled |-> enabled, one_off |-> one_off,
         expires |-> expires, expire_seconds |-> expire_seconds,
         parses |-> parses] \in Row
    BY <1>2, <1>3, <1>4, <2>1, RowType, Zenon
  <2>4. QED
    BY <2>2, <2>3

\* A row that is valid has a schedule.
LEMMA SchedulerType ==
  ASSUME NEW row \in Row, ValidateUnique(row)
  PROVE  Scheduler(row) \in Ids
<1>1. row.refs \in [Kinds -> Ids \cup {NoId}]
  BY DEF Row
<1>2. PICK k \in Kinds : row.refs[k] # NoId
  BY DEF ValidateUnique
<1>3. QED
  BY <1>1, <1>2 DEF Scheduler, Kinds

\* A step that leaves the tables alone leaves the rows consistent.
LEMMA RowsKept ==
  ASSUME RowsConsistent, UNCHANGED <<scheds, tasks>>
  PROVE  RowsConsistent'
BY DEF RowsConsistent, Present, RefsExist

-----------------------------------------------------------------------------
(* Clients.                                                                *)

\* What a client's step has to preserve, beside what it leaves alone.
LEMMA ClientKeeps ==
  ASSUME IInv, NEW op, NEW touched \in SUBSET Names, Client(op, touched),
         scheds' \in [Ids -> Schedule \cup {NoSchedule}], nextId' \in Nat \ {0},
         tasks' \in [Names -> Row], nextPk' \in Nat \ {0}
  PROVE  TypeOK' /\ LoopsDefined' /\ SnapshotValid'
<1>1. UNCHANGED <<config, pc, todo, loadVars, entryVars, schedule>>
      /\ events' = events + 1 /\ notice' = "new" /\ quiet' = FALSE
      /\ disturbed' = disturbed \cup touched
  BY DEF Client, Happens
<1>2. UNCHANGED <<batch, ret, todo, cur, found, s, schedule, snapshot, fresh, polled>>
  BY <1>1 DEF loadVars, entryVars
<1>3. disturbed' \subseteq Names /\ events' \in Nat /\ quiet' \in BOOLEAN
  <2>1. disturbed \subseteq Names /\ events \in Nat
    BY Zenon DEF IInv, TypeOK
  <2>2. quiet' \in BOOLEAN
    BY <1>1, Zenon
  <2>3. disturbed' \subseteq Names
    BY <1>1, <2>1, Zenon
  <2>4. events' \in Nat
    BY <1>1, <2>1
  <2>5. QED
    BY <2>2, <2>3, <2>4
<1>4. TypeOK'
  BY <1>1, <1>2, <1>3 DEF IInv, TypeOK
<1>5. LoopsDefined'
  BY <1>1, <1>2 DEF IInv, LoopsDefined, Wanted
<1>6. SnapshotValid'
  BY <1>2 DEF IInv, SnapshotValid
<1>7. QED
  BY <1>4, <1>5, <1>6

\* A client writes a valid row, or removes one.
LEMMA ClientRowStep ==
  ASSUME IInv, NEW n \in Names, NEW op, Client(op, {n}), NEW row \in Row,
         row.pk # 0 => Valid(row) /\ RefsExist(row),
         tasks' = [tasks EXCEPT ![n] = row], nextPk' \in Nat \ {0},
         UNCHANGED <<scheds, nextId>>
  PROVE  IInv'
<1>1. tasks \in [Names -> Row]
  BY DEF IInv, TypeOK
<1>2. tasks' \in [Names -> Row]
  BY <1>1
<1>3. TypeOK' /\ LoopsDefined' /\ SnapshotValid'
  BY <1>2, ClientKeeps DEF IInv, TypeOK
<1>4. UNCHANGED <<pc, found, cur, config>>
  BY DEF Client, entryVars
<1>5. KeysFresh'
  BY <1>4 DEF IInv, KeysFresh, Wanted
<1>6. ASSUME NEW m \in Names, tasks'[m].pk # 0 PROVE Valid(tasks'[m]) /\ RefsExist(tasks'[m])
  BY <1>1, <1>6 DEF IInv, RowsConsistent, Present
<1>7. RowsConsistent'
  BY <1>6 DEF RowsConsistent, Present, RefsExist
<1>8. QED
  BY <1>3, <1>5, <1>7 DEF IInv

LEMMA SaveTaskStep == ASSUME IInv, NEW n \in Names, SaveTask(n) PROVE IInv'
<1>1. Client("saveTask", {n}) /\ UNCHANGED <<scheds, nextId>>
  BY DEF SaveTask
<1>2. PICK id \in Ids, enabled, one_off, expires, expire_seconds, parses \in BOOLEAN :
        LET row == [pk |-> IF Present(n) THEN tasks[n].pk ELSE nextPk,
                    refs |-> Only(scheds[id].kind, id), enabled |-> enabled,
                    one_off |-> one_off, expires |-> expires,
                    expire_seconds |-> expire_seconds, parses |-> parses]
        IN /\ Valid(row) /\ RefsExist(row)
           /\ tasks' = [tasks EXCEPT ![n] = row]
           /\ nextPk' = IF Present(n) THEN nextPk ELSE nextPk + 1
  BY Zenon DEF SaveTask
<1> DEFINE row == [pk |-> IF Present(n) THEN tasks[n].pk ELSE nextPk,
                   refs |-> Only(scheds[id].kind, id), enabled |-> enabled,
                   one_off |-> one_off, expires |-> expires,
                   expire_seconds |-> expire_seconds, parses |-> parses]
<1>3. (IF Present(n) THEN tasks[n].pk ELSE nextPk) \in Nat /\ nextPk \in Nat \ {0}
  <2>1. tasks[n] \in Row /\ nextPk \in Nat \ {0}
    BY DEF IInv, TypeOK
  <2>2. tasks[n].pk \in Nat
    BY <2>1 DEF Row
  <2>3. QED
    BY <2>1, <2>2
<1>4. row \in Row
  <2> DEFINE pk == IF Present(n) THEN tasks[n].pk ELSE nextPk
             refs == Only(scheds[id].kind, id)
  <2>1. pk \in Nat /\ refs \in [Kinds -> Ids \cup {NoId}]
    BY <1>3, OnlyType
  <2> HIDE DEF pk, refs
  <2>2. [pk |-> pk, refs |-> refs, enabled |-> enabled, one_off |-> one_off,
         expires |-> expires, expire_seconds |-> expire_seconds,
         parses |-> parses] \in Row
    BY <2>1, RowType, Zenon
  <2>3. QED
    BY <2>2, Zenon DEF pk, refs
<1>5. Valid(row) /\ RefsExist(row) /\ tasks' = [tasks EXCEPT ![n] = row]
  BY <1>2, Zenon
<1>6. nextPk' = IF Present(n) THEN nextPk ELSE nextPk + 1
  BY <1>2, Zenon
<1>7. nextPk' \in Nat \ {0}
  BY <1>3, <1>6
<1> HIDE DEF row
<1>8. QED
  BY <1>1, <1>4, <1>5, <1>7, ClientRowStep

LEMMA DeleteTaskStep == ASSUME IInv, NEW n \in Names, DeleteTask(n) PROVE IInv'
<1>1. NoRow.pk = 0
  BY DEF NoRow
<1>2. nextPk' \in Nat \ {0}
  BY DEF DeleteTask, IInv, TypeOK
<1>3. QED
  BY <1>1, <1>2, NoRowType, ClientRowStep DEF DeleteTask

\* What a client's step on a schedule touches are names.
LEMMA ConcernedType ==
  ASSUME config \in Configs, NEW id, NEW sched
  PROVE  Concerned(id, sched) \in SUBSET Names
BY ConfigsAssumption DEF Concerned

LEMMA AddScheduleStep == ASSUME IInv, NEW sched \in Schedule, AddSchedule(sched) PROVE IInv'
<1>1. Client("addSchedule", Concerned(nextId, sched)) /\ nextId <= MaxId
      /\ scheds' = [scheds EXCEPT ![nextId] = sched] /\ nextId' = nextId + 1
      /\ UNCHANGED <<tasks, nextPk>>
  BY DEF AddSchedule
<1>2. scheds \in [Ids -> Schedule \cup {NoSchedule}] /\ nextId \in Nat
  BY DEF IInv, TypeOK
<1>3. scheds' \in [Ids -> Schedule \cup {NoSchedule}] /\ nextId' \in Nat
  <2>1. scheds' \in [Ids -> Schedule \cup {NoSchedule}]
    BY <1>1, <1>2
  <2>2. QED
    BY <1>1, <1>2, <2>1
<1>4. TypeOK' /\ LoopsDefined' /\ SnapshotValid'
  BY <1>1, <1>3, ConcernedType, ClientKeeps DEF IInv, TypeOK
<1>5. UNCHANGED <<pc, found, cur, config>>
  BY <1>1 DEF Client, entryVars
<1>6. \A id \in Ids : id >= nextId => scheds[id] = NoSchedule
  BY DEF IInv, KeysFresh
<1>7. \A id \in Ids : id < nextId => scheds'[id] = scheds[id]
  BY <1>1, <1>2 DEF Ids
<1>8. \A id \in Ids : id >= nextId' => scheds'[id] = NoSchedule
  BY <1>1, <1>2, <1>6 DEF Ids
<1>9. KeysFresh'
  <2> SUFFICES ASSUME pc' = "save", found' # NoId
               PROVE  /\ found' < nextId'
                      /\ scheds'[found'] # NoSchedule => scheds'[found'].kind = Wanted(cur)'.kind
    BY <1>8 DEF KeysFresh
  <2>1. found \in Ids /\ found < nextId
        /\ (scheds[found] # NoSchedule => scheds[found].kind = Wanted(cur).kind)
    BY <1>5 DEF IInv, TypeOK, KeysFresh
  <2>2. QED
    BY <1>1, <1>2, <1>5, <1>7, <2>1 DEF Ids, Wanted
<1>10. ASSUME NEW n \in Names, Present(n) PROVE RefsExist(tasks[n])'
  <2>1. RefsExist(tasks[n]) /\ tasks[n].refs \in [Kinds -> Ids \cup {NoId}]
    BY <1>10 DEF IInv, RowsConsistent, TypeOK, Row
  <2>2. ASSUME NEW k \in Kinds, tasks[n].refs[k] # NoId
        PROVE  scheds'[tasks[n].refs[k]].kind = k
    <3>1. tasks[n].refs[k] \in Ids /\ scheds[tasks[n].refs[k]].kind = k
      BY <2>1, <2>2 DEF RefsExist
    <3>2. scheds[tasks[n].refs[k]] # NoSchedule
      BY <3>1 DEF NoSchedule, Kinds
    <3>3. tasks[n].refs[k] < nextId
      BY <1>2, <1>6, <3>1, <3>2 DEF Ids
    <3>4. QED
      BY <1>7, <3>1, <3>3
  <2>3. QED
    BY <1>1, <2>2 DEF RefsExist
<1>11. RowsConsistent'
  BY <1>1, <1>10 DEF IInv, RowsConsistent, Present
<1>12. QED
  BY <1>4, <1>9, <1>11 DEF IInv

\* An edit keeps the kind of every schedule.
LEMMA EditScheduleStep ==
  ASSUME IInv, NEW id \in Ids, NEW value \in Values, EditSchedule(id, value)
  PROVE  IInv'
<1> DEFINE sched == [scheds[id] EXCEPT !.value = value]
<1>1. scheds[id] \in Schedule /\ scheds' = [scheds EXCEPT ![id] = sched]
      /\ Client("editSchedule", Concerned(id, sched) \cup Concerned(id, scheds[id]))
      /\ UNCHANGED <<nextId, tasks, nextPk>>
  BY DEF EditSchedule
<1>2. scheds \in [Ids -> Schedule \cup {NoSchedule}] /\ nextId \in Nat
  BY DEF IInv, TypeOK
<1>3. sched \in Schedule /\ sched.kind = scheds[id].kind
  BY <1>1 DEF Schedule
<1>4. scheds' \in [Ids -> Schedule \cup {NoSchedule}] /\ nextId' \in Nat
  BY <1>1, <1>2, <1>3
<1>5. Concerned(id, sched) \cup Concerned(id, scheds[id]) \in SUBSET Names
  BY ConcernedType DEF IInv, TypeOK
<1>6. TypeOK' /\ LoopsDefined' /\ SnapshotValid'
  BY <1>1, <1>4, <1>5, ClientKeeps DEF IInv, TypeOK
<1>7. UNCHANGED <<pc, found, cur, config>>
  BY <1>1 DEF Client, entryVars
<1>8. scheds[id] # NoSchedule
  BY <1>1 DEF Schedule, NoSchedule, Kinds
<1> HIDE DEF sched
<1>9. \A j \in Ids : scheds'[j].kind = scheds[j].kind
                   /\ (scheds[j] = NoSchedule => scheds'[j] = NoSchedule)
  BY <1>1, <1>2, <1>3, <1>8
<1>10. KeysFresh'
  <2>1. \A j \in Ids : j >= nextId' => scheds'[j] = NoSchedule
    BY <1>1, <1>9 DEF IInv, KeysFresh
  <2>2. ASSUME pc' = "save", found' # NoId
        PROVE  /\ found' < nextId'
               /\ scheds'[found'] # NoSchedule => scheds'[found'].kind = Wanted(cur)'.kind
    <3>1. found \in Ids /\ found < nextId
          /\ (scheds[found] # NoSchedule => scheds[found].kind = Wanted(cur).kind)
      BY <1>7, <2>2 DEF IInv, TypeOK, KeysFresh
    <3>2. QED
      BY <1>1, <1>7, <1>9, <3>1 DEF Wanted
  <2>3. QED
    BY <2>1, <2>2 DEF KeysFresh
<1>11. RowsConsistent'
  <2>1. ASSUME NEW n \in Names, Present(n) PROVE RefsExist(tasks[n])'
    <3>1. RefsExist(tasks[n]) /\ tasks[n].refs \in [Kinds -> Ids \cup {NoId}]
      BY <2>1 DEF IInv, RowsConsistent, TypeOK, Row
    <3>2. QED
      BY <1>1, <1>9, <3>1 DEF RefsExist
  <2>2. QED
    BY <1>1, <2>1 DEF IInv, RowsConsistent, Present
<1>12. QED
  BY <1>6, <1>10, <1>11 DEF IInv

\* A deletion takes the tasks along that refer to the schedule.
LEMMA DeleteScheduleStep ==
  ASSUME IInv, NEW id \in Ids, DeleteSchedule(id) PROVE IInv'
<1>1. Client("deleteSchedule", Concerned(id, scheds[id]))
      /\ scheds' = [scheds EXCEPT ![id] = NoSchedule]
      /\ tasks' = [n \in Names |-> IF Refers(n, id) THEN NoRow ELSE tasks[n]]
      /\ UNCHANGED <<nextId, nextPk>>
  BY DEF DeleteSchedule
<1>2. scheds \in [Ids -> Schedule \cup {NoSchedule}] /\ nextId \in Nat
      /\ tasks \in [Names -> Row]
  BY DEF IInv, TypeOK
<1>3. scheds' \in [Ids -> Schedule \cup {NoSchedule}] /\ tasks' \in [Names -> Row]
  BY <1>1, <1>2, NoRowType
<1>4. TypeOK' /\ LoopsDefined' /\ SnapshotValid'
  BY <1>1, <1>3, ConcernedType, ClientKeeps DEF IInv, TypeOK
<1>5. UNCHANGED <<pc, found, cur, config>>
  BY <1>1 DEF Client, entryVars
<1>6. \A j \in Ids : scheds'[j] = scheds[j] \/ (j = id /\ scheds'[j] = NoSchedule)
  BY <1>1, <1>2
<1>7. KeysFresh'
  <2>1. \A j \in Ids : j >= nextId' => scheds'[j] = NoSchedule
    BY <1>1, <1>6 DEF IInv, KeysFresh
  <2>2. ASSUME pc' = "save", found' # NoId
        PROVE  /\ found' < nextId'
               /\ scheds'[found'] # NoSchedule => scheds'[found'].kind = Wanted(cur)'.kind
    <3>1. found \in Ids /\ found < nextId
          /\ (scheds[found] # NoSchedule => scheds[found].kind = Wanted(cur).kind)
      BY <1>5, <2>2 DEF IInv, TypeOK, KeysFresh
    <3>2. QED
      BY <1>1, <1>5, <1>6, <3>1 DEF Wanted
  <2>3. QED
    BY <2>1, <2>2 DEF KeysFresh
<1>8. RowsConsistent'
  <2>1. ASSUME NEW n \in Names, tasks'[n].pk # 0
        PROVE  Valid(tasks'[n]) /\ RefsExist(tasks[n])' /\ tasks'[n] = tasks[n]
    <3>1. ~Refers(n, id) /\ tasks'[n] = tasks[n]
      BY <1>1, <2>1 DEF NoRow
    <3>2. Valid(tasks[n]) /\ RefsExist(tasks[n]) /\ tasks[n].refs \in [Kinds -> Ids \cup {NoId}]
      BY <1>2, <2>1, <3>1 DEF IInv, RowsConsistent, Present, Row
    <3>3. ASSUME NEW k \in Kinds, tasks[n].refs[k] # NoId
          PROVE  scheds'[tasks[n].refs[k]].kind = k
      BY <1>6, <3>1, <3>2, <3>3 DEF Refers, RefsExist
    <3>4. QED
      BY <3>1, <3>2, <3>3 DEF RefsExist
  <2>2. QED
    BY <2>1 DEF RowsConsistent, Present
<1>9. QED
  BY <1>4, <1>7, <1>8 DEF IInv

LEMMA ClientInv == ASSUME IInv, ClientStep PROVE IInv'
BY SaveTaskStep, DeleteTaskStep, AddScheduleStep, EditScheduleStep, DeleteScheduleStep
DEF ClientStep

-----------------------------------------------------------------------------
(* Beat: its life, and the reload.                                         *)

\* The memory of a process that has ended.
LEMMA EmptyTypes == NoRows \in [Names -> Row] /\ NoEntries \in [Names -> Entries]
BY NoRowType DEF NoRows, NoEntries, NoEntry, Entries

\* Outside from_entry() nothing is found that could change.
LEMMA KeysKept ==
  ASSUME KeysFresh, UNCHANGED <<scheds, nextId>>, pc' # "save"
  PROVE  KeysFresh'
BY DEF KeysFresh

LEMMA ForgetStep ==
  ASSUME IInv, ForgetProcess, pc' \in {"down", "crashed"},
         UNCHANGED <<dbVars, config, quiet, disturbed>>, events' \in Nat
  PROVE  IInv'
<1>1. UNCHANGED <<scheds, nextId, tasks, nextPk, notice>>
  BY DEF dbVars
<1>2. batch' = 1 /\ ret' = "setup" /\ todo' = {} /\ cur' = NoName /\ found' = NoId
      /\ s' = NoEntries /\ schedule' = NoEntries /\ snapshot' = NoRows
      /\ fresh' = NoEntries /\ polled' = FALSE
  BY DEF ForgetProcess
<1>3. TypeOK'
  BY <1>1, <1>2, EmptyTypes DEF IInv, TypeOK
<1>4. LoopsDefined' /\ SnapshotValid'
  BY <1>2 DEF LoopsDefined, SnapshotValid, NoRows, NoRow
<1>5. KeysFresh' /\ RowsConsistent'
  BY <1>1, KeysKept, RowsKept DEF IInv
<1>6. QED
  BY <1>3, <1>4, <1>5 DEF IInv

LEMMA StartStep == ASSUME IInv, Start PROVE IInv'
<1>1. UNCHANGED <<scheds, nextId, tasks, nextPk, notice, todo, ret, snapshot, fresh,
                  polled, batch, cur, found, s, schedule, events>>
      /\ config' \in Configs /\ pc' = "query" /\ quiet' = TRUE /\ disturbed' = {}
  BY DEF Start, dbVars, loadVars, entryVars
<1>2. TypeOK'
  BY <1>1 DEF IInv, TypeOK
<1>3. LoopsDefined' /\ SnapshotValid'
  BY <1>1 DEF IInv, LoopsDefined, SnapshotValid
<1>4. KeysFresh' /\ RowsConsistent'
  BY <1>1, KeysKept, RowsKept DEF IInv
<1>5. QED
  BY <1>2, <1>3, <1>4 DEF IInv

LEMMA StopStep == ASSUME IInv, Stop PROVE IInv'
<1>1. pc' = "down" /\ ForgetProcess /\ UNCHANGED <<dbVars, config, history>>
      /\ events' = events + 1
  BY DEF Stop, Happens
<1>2. events' \in Nat
  BY <1>1 DEF IInv, TypeOK
<1>3. QED
  BY <1>1, <1>2, ForgetStep DEF history

LEMMA QueryStep == ASSUME IInv, QueryTasks PROVE IInv'
<1>1. UNCHANGED <<scheds, nextId, tasks, nextPk, notice, config, todo, ret, fresh,
                  polled, batch, cur, found, s, schedule, events, quiet, disturbed>>
      /\ pc' = "prefetch"
      /\ snapshot' = [n \in Names |-> IF tasks[n].enabled THEN tasks[n] ELSE NoRow]
  BY DEF QueryTasks, dbVars, entryVars, history
<1>2. tasks \in [Names -> Row]
  BY DEF IInv, TypeOK
<1>3. \A n \in Names : snapshot'[n] = tasks[n] \/ snapshot'[n] = NoRow
  BY <1>1, Zenon
<1>4. snapshot' \in [Names -> Row]
  <2>1. \A n \in Names : (IF tasks[n].enabled THEN tasks[n] ELSE NoRow) \in Row
    BY <1>2, NoRowType, Zenon
  <2>2. QED
    BY <1>1, <2>1, Zenon
<1>5. TypeOK'
  BY <1>1, <1>4 DEF IInv, TypeOK
<1>6. SnapshotValid'
  BY <1>3 DEF IInv, SnapshotValid, RowsConsistent, Present, NoRow
<1>7. LoopsDefined'
  BY <1>1 DEF LoopsDefined
<1>8. KeysFresh' /\ RowsConsistent'
  BY <1>1, KeysKept, RowsKept DEF IInv
<1>9. QED
  BY <1>5, <1>6, <1>7, <1>8 DEF IInv

LEMMA PrefetchFailsStep == ASSUME IInv, PrefetchFails PROVE IInv'
<1>1. Crash /\ UNCHANGED <<dbVars, config, events, history>>
  BY DEF PrefetchFails
<1>2. QED
  BY <1>1, ForgetStep DEF Crash, history, IInv, TypeOK

LEMMA PrefetchStep == ASSUME IInv, Prefetch PROVE IInv'
<1>1. UNCHANGED <<scheds, nextId, tasks, nextPk, notice, config, ret, snapshot,
                  polled, batch, cur, found, s, schedule, events, quiet, disturbed>>
      /\ pc' = "disable" /\ todo' = {n \in Queried : ~snapshot[n].parses}
      /\ fresh' = [n \in Names |->
                     IF n \notin Queried THEN NoEntry
                     ELSE [enabled |-> snapshot[n].parses, sched |-> Meaning(snapshot[n])]]
  BY DEF Prefetch, dbVars, entryVars, history
<1>2. ASSUME NEW n \in Queried
      PROVE  [enabled |-> snapshot[n].parses, sched |-> Meaning(snapshot[n])] \in Entries
  <2>1. n \in Names /\ snapshot[n] \in Row /\ ValidateUnique(snapshot[n])
    BY DEF Queried, IInv, TypeOK, SnapshotValid, Valid
  <2>2. snapshot[n].parses \in BOOLEAN
    BY <2>1, Zenon DEF Row
  <2>3. Meaning(snapshot[n]) \in Schedule \cup {NoSchedule}
    BY <2>1, SchedulerType DEF Meaning, IInv, TypeOK
  <2>4. QED
    BY <2>2, <2>3, Zenon DEF Entries
<1>3. NoEntry \in Entries
  BY DEF NoEntry, Entries
<1>4. fresh' \in [Names -> Entries]
  <2>1. \A n \in Names : (IF n \notin Queried THEN NoEntry
            ELSE [enabled |-> snapshot[n].parses, sched |-> Meaning(snapshot[n])]) \in Entries
    BY <1>2, <1>3, Zenon
  <2>2. QED
    BY <1>1, <2>1, Zenon
<1>5. todo' \subseteq Names
  BY <1>1 DEF Queried
<1>6. TypeOK'
  BY <1>1, <1>4, <1>5 DEF IInv, TypeOK
<1>7. LoopsDefined' /\ SnapshotValid'
  BY <1>1 DEF IInv, LoopsDefined, SnapshotValid
<1>8. KeysFresh' /\ RowsConsistent'
  BY <1>1, KeysKept, RowsKept DEF IInv
<1>9. QED
  BY <1>6, <1>7, <1>8 DEF IInv

\* The instance that is saved was valid when it was read, and its schedule
\* exists when it is written.
LEMMA DisableStep == ASSUME IInv, NEW n \in Names, Disable(n) PROVE IInv'
<1>1. n \in todo /\ pc = "disable"
      /\ UNCHANGED <<scheds, nextId, nextPk, notice, config, events, quiet, disturbed>>
  BY DEF Disable, history
<1>2. CASE tasks[n].pk \in {0, snapshot[n].pk} /\ RefsExist(snapshot[n])
  <2> DEFINE row == [snapshot[n] EXCEPT !.enabled = FALSE]
  <2>1. tasks' = [tasks EXCEPT ![n] = row] /\ todo' = todo \ {n}
        /\ UNCHANGED <<pc, ret, snapshot, fresh, polled, batch, cur, found, s, schedule>>
    BY <1>2 DEF Disable, loadVars, entryVars
  <2>2. tasks \in [Names -> Row] /\ snapshot[n] \in Row
    BY DEF IInv, TypeOK
  <2>3. row \in Row
    BY <2>2, Zenon DEF Row
  <2>4. row.pk # 0 => Valid(row) /\ RefsExist(row)
    <3>1. row.pk = snapshot[n].pk /\ row.refs = snapshot[n].refs
          /\ row.one_off = snapshot[n].one_off /\ row.expires = snapshot[n].expires
          /\ row.expire_seconds = snapshot[n].expire_seconds
      BY <2>2, Zenon DEF Row
    <3>2. snapshot[n].pk # 0 => Valid(snapshot[n])
      BY DEF IInv, SnapshotValid
    <3> HIDE DEF row
    <3>3. snapshot[n].pk # 0 => CleanExpires(row)
      BY <3>1, <3>2, Zenon DEF Valid, CleanExpires
    <3>4. ValidateUnique(snapshot[n]) = ValidateUnique(row)
      BY <3>1, Zenon DEF ValidateUnique
    <3>5. RefsExist(snapshot[n]) = RefsExist(row)
      BY <3>1, Zenon DEF RefsExist
    <3>6. QED
      BY <1>2, <3>1, <3>2, <3>3, <3>4, <3>5, Zenon DEF Valid
  <2> HIDE DEF row
  <2>5. tasks' \in [Names -> Row] /\ todo' \subseteq Names
    BY <2>1, <2>2, <2>3 DEF IInv, TypeOK
  <2>6. TypeOK'
    BY <1>1, <2>1, <2>5 DEF IInv, TypeOK
  <2>7. LoopsDefined' /\ SnapshotValid'
    BY <1>1, <2>1 DEF IInv, LoopsDefined, SnapshotValid
  <2>8. KeysFresh'
    BY <1>1, <2>1, KeysKept DEF IInv
  <2>9. ASSUME NEW m \in Names, tasks'[m].pk # 0
        PROVE  Valid(tasks'[m]) /\ RefsExist(tasks'[m])
    BY <2>1, <2>2, <2>4, <2>9 DEF IInv, RowsConsistent, Present
  <2>10. RowsConsistent'
    BY <1>1, <2>9 DEF RowsConsistent, Present, RefsExist
  <2>11. QED
    BY <2>6, <2>7, <2>8, <2>10 DEF IInv
<1>3. CASE ~(tasks[n].pk \in {0, snapshot[n].pk} /\ RefsExist(snapshot[n]))
  <2>1. Crash /\ UNCHANGED tasks
    BY <1>3 DEF Disable
  <2>2. QED
    BY <1>1, <2>1, ForgetStep DEF Crash, dbVars, IInv, TypeOK
<1>4. QED
  BY <1>2, <1>3

\* A batch goes over names of the configuration.
LEMMA BatchType ==
  ASSUME config \in Configs, NEW b
  PROVE  Batch(b) \subseteq DOMAIN config /\ Batch(b) \subseteq Names
BY ConfigsAssumption DEF Batch

LEMMA LoadedStep == ASSUME IInv, Loaded PROVE IInv'
<1>1. UNCHANGED <<scheds, nextId, tasks, nextPk, notice, config, ret, polled, cur,
                  found, events, quiet, disturbed>>
      /\ pc = "disable" /\ schedule' = fresh /\ snapshot' = NoRows /\ fresh' = NoEntries
  BY DEF Loaded, dbVars, history
<1>2. todo' \subseteq Names /\ s' \in [Names -> Entries] /\ batch' \in {1, 2}
      /\ pc' \in {"poll", "get", "update", "ready"}
      /\ (pc' = "get" => todo' \subseteq DOMAIN config)
  <2>1. CASE ret = "setup"
    <3>1. BeginBatch(1)
      BY <2>1 DEF Loaded
    <3>2. QED
      BY <3>1, BatchType, EmptyTypes DEF BeginBatch, IInv, TypeOK
  <2>2. CASE ret # "setup"
    <3>1. pc' = ret /\ UNCHANGED <<batch, s, todo>>
      BY <2>2 DEF Loaded
    <3>2. QED
      BY <2>2, <3>1 DEF IInv, TypeOK
  <2>3. QED
    BY <2>1, <2>2
<1>3. TypeOK'
  BY <1>1, <1>2, EmptyTypes DEF IInv, TypeOK
<1>4. LoopsDefined'
  BY <1>1, <1>2 DEF LoopsDefined
<1>5. SnapshotValid'
  BY <1>1 DEF SnapshotValid, NoRows, NoRow
<1>6. KeysFresh' /\ RowsConsistent'
  BY <1>1, <1>2, KeysKept, RowsKept DEF IInv
<1>7. QED
  BY <1>3, <1>4, <1>5, <1>6 DEF IInv

-----------------------------------------------------------------------------
(* Beat: update_from_dict() and from_entry().                              *)

\* The loop goes on with what is left.
LEMMA NextEntryType ==
  ASSUME IInv, NEW n, NextEntry(n), todo \subseteq DOMAIN config, config' = config
  PROVE  /\ todo' \subseteq Names /\ cur' \in Names \cup {NoName}
         /\ found' \in Ids \cup {NoId} /\ pc' \in {"poll", "get"}
         /\ LoopsDefined'
BY DEF NextEntry, IInv, TypeOK, LoopsDefined

LEMMA GetScheduleStep == ASSUME IInv, NEW n \in Names, GetSchedule(n) PROVE IInv'
<1>1. UNCHANGED <<scheds, nextId, tasks, nextPk, notice, config, ret, snapshot, fresh,
                  polled, batch, s, schedule, events, quiet, disturbed>>
      /\ pc = "get" /\ n \in todo /\ todo \subseteq DOMAIN config
  BY DEF GetSchedule, dbVars, loadVars, history, IInv, LoopsDefined
<1>2. SnapshotValid' /\ RowsConsistent'
  BY <1>1, RowsKept DEF IInv, SnapshotValid
<1>3. CASE Wanted(n) \in Schedule /\ FromSchedule(Wanted(n)) # {}
  <2>1. cur' = n /\ found' \in FromSchedule(Wanted(n)) /\ pc' = "save" /\ todo' = todo
    BY <1>3 DEF GetSchedule
  <2>2. found' \in Ids \cup {NoId}
    BY <2>1 DEF FromSchedule, Matching
  <2>3. TypeOK'
    BY <1>1, <2>1, <2>2 DEF IInv, TypeOK
  <2>4. LoopsDefined'
    BY <1>1, <1>3, <2>1 DEF LoopsDefined, Wanted
  <2>5. KeysFresh'
    <3>1. ASSUME found' # NoId
          PROVE  found' < nextId /\ scheds[found'].kind = Wanted(n).kind
      <4>1. found' \in Ids /\ scheds[found'] = Wanted(n)
        BY <2>1, <3>1 DEF FromSchedule, Matching
      <4>2. scheds[found'] # NoSchedule
        BY <1>3, <4>1 DEF Schedule, NoSchedule, Kinds
      <4>3. found' \in Nat /\ nextId \in Nat /\ (found' >= nextId => scheds[found'] = NoSchedule)
        BY <4>1 DEF IInv, KeysFresh, TypeOK, Ids
      <4>4. QED
        BY <4>1, <4>2, <4>3
    <3>2. QED
      BY <1>1, <2>1, <3>1 DEF IInv, KeysFresh, Wanted
  <2>6. QED
    BY <1>2, <2>3, <2>4, <2>5 DEF IInv
<1>4. CASE ~(Wanted(n) \in Schedule /\ FromSchedule(Wanted(n)) # {})
  <2>1. NextEntry(n)
    BY <1>4 DEF GetSchedule, EntryFails
  <2>2. TypeOK' /\ LoopsDefined' /\ KeysFresh'
    BY <1>1, <2>1, NextEntryType, KeysKept DEF IInv, TypeOK
  <2>3. QED
    BY <1>2, <2>2 DEF IInv
<1>5. QED
  BY <1>3, <1>4

\* The row that is saved replaces one of its own kind, or none.
LEMMA SaveScheduleStep == ASSUME IInv, SaveSchedule PROVE IInv'
<1> DEFINE id == IF found = NoId THEN nextId ELSE found
<1>1. UNCHANGED <<tasks, nextPk, config, ret, snapshot, fresh, polled, batch, s,
                  schedule, events, quiet, disturbed>>
      /\ pc = "save" /\ id <= MaxId
  BY DEF SaveSchedule, loadVars, history
<1>2. todo \subseteq DOMAIN config /\ cur \in DOMAIN config /\ Wanted(cur) \in Schedule
  BY <1>1 DEF IInv, LoopsDefined
<1>3. SnapshotValid'
  BY <1>1 DEF IInv, SnapshotValid
<1>4. scheds \in [Ids -> Schedule \cup {NoSchedule}] /\ nextId \in Nat
      /\ found \in Ids \cup {NoId}
  BY DEF IInv, TypeOK
<1>5. CASE UniqueSolar(id, Wanted(cur))
  <2>1. scheds' = [scheds EXCEPT ![id] = Wanted(cur)]
        /\ nextId' = (IF found = NoId THEN nextId + 1 ELSE nextId)
        /\ notice' = "new" /\ found' = id /\ pc' = "task" /\ UNCHANGED <<cur, todo>>
    BY <1>5 DEF SaveSchedule
  <2>2. id \in Nat /\ nextId <= nextId' /\ nextId' \in Nat /\ id < nextId'
    BY <1>1, <1>4, <2>1 DEF IInv, KeysFresh, Ids, NoId
  <2>3. scheds[id] = NoSchedule \/ scheds[id].kind = Wanted(cur).kind \/ id \notin Ids
    BY <1>1, <1>4 DEF IInv, KeysFresh
  <2>4. \A j \in Ids : scheds'[j] = scheds[j] \/ (j = id /\ scheds'[j] = Wanted(cur))
    BY <1>4, <2>1
  <2>5. \A j \in Ids : j >= nextId' => scheds'[j] = NoSchedule
    <3> SUFFICES ASSUME NEW j \in Ids, j >= nextId' PROVE scheds'[j] = NoSchedule
      OBVIOUS
    <3>1. j # id /\ j >= nextId
      BY <1>4, <2>2 DEF Ids
    <3>2. QED
      BY <2>4, <3>1 DEF IInv, KeysFresh
  <2>6. scheds' \in [Ids -> Schedule \cup {NoSchedule}]
    BY <1>2, <1>4, <2>1
  <2>7. id \in Ids \cup {NoId}
    BY <1>1, <2>2 DEF Ids, NoId
  <2>8. TypeOK'
    BY <1>1, <2>1, <2>2, <2>6, <2>7 DEF IInv, TypeOK
  <2>9. LoopsDefined'
    BY <1>1, <1>2, <2>1 DEF LoopsDefined, Wanted
  <2>10. KeysFresh'
    BY <2>1, <2>5 DEF KeysFresh
  <2>11. ASSUME NEW n \in Names, Present(n) PROVE RefsExist(tasks[n])'
    <3>1. RefsExist(tasks[n]) /\ tasks[n].refs \in [Kinds -> Ids \cup {NoId}]
      BY <2>11 DEF IInv, RowsConsistent, TypeOK, Row
    <3>2. ASSUME NEW k \in Kinds, tasks[n].refs[k] # NoId
          PROVE  scheds'[tasks[n].refs[k]].kind = k
      <4>1. tasks[n].refs[k] \in Ids /\ scheds[tasks[n].refs[k]].kind = k
        BY <3>1, <3>2 DEF RefsExist
      <4>2. scheds[tasks[n].refs[k]] # NoSchedule
        BY <4>1 DEF NoSchedule, Kinds
      <4>3. QED
        BY <2>3, <2>4, <4>1, <4>2
    <3>3. QED
      BY <1>1, <3>2 DEF RefsExist
  <2>12. RowsConsistent'
    BY <1>1, <2>11 DEF IInv, RowsConsistent, Present
  <2>13. QED
    BY <1>3, <2>8, <2>9, <2>10, <2>12 DEF IInv
<1>6. CASE ~UniqueSolar(id, Wanted(cur))
  <2>1. NextEntry(cur) /\ UNCHANGED <<scheds, nextId, notice>>
    BY <1>6 DEF SaveSchedule, EntryFails
  <2>2. TypeOK' /\ LoopsDefined' /\ KeysFresh'
    BY <1>1, <1>2, <2>1, NextEntryType, KeysKept DEF IInv, TypeOK
  <2>3. RowsConsistent'
    BY <1>1, <2>1, RowsKept DEF IInv
  <2>4. QED
    BY <1>3, <2>2, <2>3 DEF IInv
<1>7. QED
  BY <1>5, <1>6

\* PeriodicTask.save() lets a row through only if it is valid.
LEMMA UpdateOrCreateStep == ASSUME IInv, UpdateOrCreate PROVE IInv'
<1> DEFINE row == Unpacked(cur)
<1>1. UNCHANGED <<scheds, nextId, config, ret, snapshot, fresh, polled, batch,
                  schedule, events, quiet, disturbed>>
      /\ pc = "task" /\ NextEntry(cur)
  BY DEF UpdateOrCreate, loadVars, history, EntryFails
<1>2. todo \subseteq DOMAIN config /\ cur \in DOMAIN config /\ Wanted(cur) \in Schedule
      /\ cur \in Names
  BY <1>1, ConfigsAssumption DEF IInv, TypeOK, LoopsDefined
<1>3. SnapshotValid' /\ KeysFresh' /\ LoopsDefined' /\ pc' \in {"poll", "get"}
      /\ todo' \subseteq Names /\ cur' \in Names \cup {NoName} /\ found' \in Ids \cup {NoId}
  BY <1>1, <1>2, NextEntryType, KeysKept DEF IInv, SnapshotValid
<1>4. tasks \in [Names -> Row] /\ nextPk \in Nat \ {0} /\ s \in [Names -> Entries]
      /\ found \in Ids \cup {NoId} /\ config \in Configs
  BY DEF IInv, TypeOK
<1>5. row \in Row
  <2>1. nextPk \in Nat
    BY <1>4
  <2>2. (IF Present(cur) THEN tasks[cur] ELSE NewRow) \in Row
    BY <1>2, <1>4, <2>1, NewRowType, Zenon
  <2>3. QED
    BY <1>2, <1>4, <2>2, UnpackType DEF Unpacked
<1> HIDE DEF row
<1>6. CASE Valid(row) /\ RefsExist(row)
  <2>1. tasks' = [tasks EXCEPT ![cur] = row] /\ notice' = "new"
        /\ nextPk' = (IF Present(cur) THEN nextPk ELSE nextPk + 1)
        /\ s' = (IF row.enabled
                 THEN [s EXCEPT ![cur] = [enabled |-> TRUE, sched |-> Wanted(cur)]]
                 ELSE s)
    BY <1>6, Zenon DEF UpdateOrCreate, row
  <2>2. tasks' \in [Names -> Row] /\ nextPk' \in Nat \ {0}
    <3>1. tasks' = [tasks EXCEPT ![cur] = row] /\ nextPk' \in {nextPk, nextPk + 1}
      BY <2>1, Zenon
    <3>2. nextPk' \in Nat \ {0}
      BY <1>4, <3>1
    <3>3. tasks' \in [Names -> Row]
      BY <1>4, <1>5, <3>1
    <3>4. QED
      BY <3>2, <3>3
  <2>3. s' \in [Names -> Entries]
    <3>1. [enabled |-> TRUE, sched |-> Wanted(cur)] \in Entries
      BY <1>2 DEF Entries
    <3>2. [s EXCEPT ![cur] = [enabled |-> TRUE, sched |-> Wanted(cur)]] \in [Names -> Entries]
      BY <1>4, <3>1
    <3>3. QED
      BY <1>4, <2>1, <3>2, Zenon
  <2>4. TypeOK'
    BY <1>1, <1>3, <2>1, <2>2, <2>3 DEF IInv, TypeOK
  <2>5. ASSUME NEW m \in Names, tasks'[m].pk # 0
        PROVE  Valid(tasks'[m]) /\ RefsExist(tasks'[m])
    BY <1>4, <1>6, <2>1, <2>5 DEF IInv, RowsConsistent, Present
  <2>6. RowsConsistent'
    BY <1>1, <2>5 DEF RowsConsistent, Present, RefsExist
  <2>7. QED
    BY <1>3, <2>4, <2>6 DEF IInv
<1>7. CASE ~(Valid(row) /\ RefsExist(row))
  <2>1. UNCHANGED <<tasks, nextPk, notice, s>>
    BY <1>7 DEF UpdateOrCreate, row
  <2>2. TypeOK'
    BY <1>1, <1>3, <2>1 DEF IInv, TypeOK
  <2>3. QED
    BY <1>1, <1>3, <2>1, <2>2, RowsKept DEF IInv
<1>8. QED
  BY <1>6, <1>7

LEMMA AccessStep == ASSUME IInv, NEW forced \in BOOLEAN, Access(forced) PROVE IInv'
<1>1. UNCHANGED <<scheds, nextId, tasks, nextPk, config, todo, snapshot, fresh,
                  batch, cur, found, s, schedule, events, quiet, disturbed>>
      /\ notice' \in {notice, "seen"} /\ polled' \in BOOLEAN
  BY Zenon DEF Access, entryVars, history
<1>2. pc' \in {"query", "update", "ready"} /\ ret' \in {ret, "update", "ready"}
  BY Zenon DEF Access
<1>3. TypeOK'
  BY <1>1, <1>2 DEF IInv, TypeOK
<1>4. LoopsDefined' /\ SnapshotValid'
  BY <1>1, <1>2 DEF IInv, LoopsDefined, SnapshotValid
<1>5. KeysFresh' /\ RowsConsistent'
  BY <1>1, <1>2, KeysKept, RowsKept DEF IInv
<1>6. QED
  BY <1>3, <1>4, <1>5 DEF IInv

LEMMA UpdateScheduleStep == ASSUME IInv, UpdateSchedule PROVE IInv'
<1>1. UNCHANGED <<scheds, nextId, tasks, nextPk, notice, config, ret, snapshot, fresh,
                  polled, cur, found, events, quiet, disturbed>>
      /\ schedule' = [n \in Names |-> IF s[n] # NoEntry THEN s[n] ELSE schedule[n]]
  BY DEF UpdateSchedule, dbVars, loadVars
<1>2. schedule' \in [Names -> Entries]
  <2>1. s \in [Names -> Entries] /\ schedule \in [Names -> Entries]
    BY DEF IInv, TypeOK
  <2>2. \A n \in Names : (IF s[n] # NoEntry THEN s[n] ELSE schedule[n]) \in Entries
    BY <2>1, Zenon
  <2>3. QED
    BY <1>1, <2>2, Zenon
<1>3. todo' \subseteq Names /\ s' \in [Names -> Entries] /\ batch' \in {1, 2}
      /\ pc' \in {"poll", "get", "ready"}
      /\ (pc' = "get" => todo' \subseteq DOMAIN config)
  <2>1. CASE batch = 1
    <3>1. BeginBatch(2)
      BY <2>1 DEF UpdateSchedule
    <3>2. QED
      BY <3>1, BatchType, EmptyTypes DEF BeginBatch, IInv, TypeOK
  <2>2. CASE batch # 1
    <3>1. pc' = "ready" /\ s' = NoEntries /\ UNCHANGED <<batch, todo>>
      BY <2>2 DEF UpdateSchedule
    <3>2. QED
      BY <3>1, EmptyTypes DEF IInv, TypeOK
  <2>3. QED
    BY <2>1, <2>2
<1>4. TypeOK'
  BY <1>1, <1>2, <1>3 DEF IInv, TypeOK
<1>5. LoopsDefined' /\ SnapshotValid'
  BY <1>1, <1>3 DEF IInv, LoopsDefined, SnapshotValid
<1>6. KeysFresh' /\ RowsConsistent'
  BY <1>1, <1>3, KeysKept, RowsKept DEF IInv
<1>7. QED
  BY <1>4, <1>5, <1>6 DEF IInv

-----------------------------------------------------------------------------
\* The invariant holds at first.
LEMMA IInv_init == Init => IInv
<1> SUFFICES ASSUME Init PROVE IInv
  OBVIOUS
<1>1. scheds = [id \in Ids |-> NoSchedule] /\ nextId = 1 /\ tasks = NoRows /\ nextPk = 1
      /\ notice = "none" /\ config \in Configs /\ pc = "down" /\ events = 0
      /\ quiet = TRUE /\ disturbed = {}
  BY DEF Init
<1>2. batch = 1 /\ ret = "setup" /\ todo = {} /\ cur = NoName /\ found = NoId
      /\ s = NoEntries /\ schedule = NoEntries /\ snapshot = NoRows
      /\ fresh = NoEntries /\ polled = FALSE
  BY DEF Init, NoProcess
<1>3. scheds \in [Ids -> Schedule \cup {NoSchedule}]
  BY <1>1
<1>4. TypeOK
  <2>1. polled \in BOOLEAN /\ quiet \in BOOLEAN
    BY <1>1, <1>2, Zenon
  <2>2. nextId \in Nat /\ nextPk \in Nat \ {0} /\ events \in Nat /\ batch \in {1, 2}
    BY <1>1, <1>2
  <2>3. QED
    BY <1>1, <1>2, <1>3, <2>1, <2>2, EmptyTypes, Zenon DEF TypeOK
<1>5. LoopsDefined /\ SnapshotValid
  BY <1>1, <1>2 DEF LoopsDefined, SnapshotValid, NoRows, NoRow
<1>6. KeysFresh /\ RowsConsistent
  BY <1>1 DEF KeysFresh, RowsConsistent, Present, NoRows, NoRow
<1>7. QED
  BY <1>4, <1>5, <1>6 DEF IInv

\* Every step keeps it.
LEMMA IInv_step == IInv /\ [Next]_vars => IInv'
<1> SUFFICES ASSUME IInv, [Next]_vars PROVE IInv'
  OBVIOUS
<1>1. CASE BeatStep
  BY <1>1, StartStep, QueryStep, PrefetchStep, PrefetchFailsStep, LoadedStep, DisableStep,
     GetScheduleStep, SaveScheduleStep, UpdateOrCreateStep, AccessStep, UpdateScheduleStep
  DEF BeatStep
<1>2. CASE Stop
  BY <1>2, StopStep
<1>3. CASE ClientStep
  BY <1>3, ClientInv
<1>4. CASE UNCHANGED vars
  <2>1. UNCHANGED <<scheds, nextId, tasks, nextPk, notice, config, pc, todo, ret, snapshot,
                    fresh, polled, batch, cur, found, s, schedule, events, quiet, disturbed>>
    BY <1>4 DEF vars, dbVars, loadVars, entryVars, history
  <2>2. TypeOK' /\ LoopsDefined' /\ SnapshotValid'
    BY <2>1 DEF IInv, TypeOK, LoopsDefined, Wanted, SnapshotValid
  <2>3. KeysFresh' /\ RowsConsistent'
    BY <2>1, RowsKept DEF IInv, KeysFresh, Wanted
  <2>4. QED
    BY <2>2, <2>3 DEF IInv
<1>5. QED
  BY <1>1, <1>2, <1>3, <1>4 DEF Next

LEMMA IInvHolds == Spec => []IInv
BY IInv_init, IInv_step, PTL DEF Spec

\* The variables keep their types: a loop over a configuration meets names
\* of the configuration, and a prefetch finds a schedule for every row.
THEOREM TypeCorrect == Spec => []TypeOK
<1>1. IInv => TypeOK
  BY DEF IInv
<1>2. QED
  BY <1>1, IInvHolds, PTL

\* Every row has one schedule, of its kind and in its table, whatever beat
\* installs or disables while clients edit and delete.
THEOREM RowsConsistentHolds == Spec => []RowsConsistent
<1>1. IInv => RowsConsistent
  BY DEF IInv
<1>2. QED
  BY <1>1, IInvHolds, PTL

-----------------------------------------------------------------------------
(* What a start installs.  Every part is about the tasks that no client has *)
(* touched since beat was started.                                         *)

\* Where beat is: in a reload, in the loop over a batch, in
\* update_from_dict(), or past setup_schedule().
Reloading  == pc \in {"query", "prefetch", "disable"}
Looping    == pc \in {"get", "save", "task"}
Installing == Looping \/ pc \in {"poll", "update"} \/ (Reloading /\ ret = "update")
Serving    == pc = "ready" \/ (Reloading /\ ret = "ready")

\* Where an entry is: still to be installed, done in this batch, or done in
\* a batch that has ended.
Pending(n) ==
  /\ Installing
  /\ (Looping /\ n \in todo /\ n \in Batch(batch)) \/ (batch = 1 /\ n \in Batch(2))
Handled(n) == Installing /\ n \in Batch(batch) /\ (Looping => n \notin todo)
Finished(n) == Serving \/ (Installing /\ batch = 2 /\ n \in Batch(1))

\* Whether an entry can be installed, and whether it is.
Installable(n) ==
  /\ Wanted(n) \in Schedule /\ CleanSchedule(Wanted(n))
  /\ Valid(Unpack(n, tasks[n], 1))
Installed(n) ==
  /\ Present(n)
  /\ \E id \in Ids : scheds[id] = Wanted(n) /\ tasks[n] = Unpack(n, tasks[n], id)
Converged(n) ==
  /\ Wanted(n) \in Schedule /\ CleanSchedule(Wanted(n)) => Matching(Wanted(n)) # {}
  /\ Installable(n) => Installed(n)

\* How a task is held in memory: by the row queried, by the entry made of it,
\* by update_from_dict(), by the schedule.
Readable(n) == tasks[n].enabled => tasks[n].parses
Copied(n)   == snapshot[n] = IF tasks[n].enabled THEN tasks[n] ELSE NoRow
Unreadable(n) ==
  snapshot[n] = tasks[n] /\ tasks[n].enabled /\ ~tasks[n].parses /\ ~fresh[n].enabled
Made(n) ==
  /\ fresh[n].enabled = tasks[n].enabled
  /\ tasks[n].enabled => tasks[n].parses /\ fresh[n].sched = Meaning(tasks[n])
Entered(n) ==
  s[n] = IF tasks[n].enabled THEN [enabled |-> TRUE, sched |-> Wanted(n)] ELSE NoEntry
Dark(n)   == ~schedule[n].enabled
Stale(n)  == ~tasks[n].enabled /\ schedule[n].enabled
Agrees(n) == schedule[n].enabled = tasks[n].enabled
Shown(n)  == Agrees(n) /\ (schedule[n].enabled => schedule[n].sched = Wanted(n))
Unpolled  == ~polled

\* The tables as the last undisturbed start left them.
HistoryOK ==
  /\ quiet => disturbed = {}
  /\ settled # <<>> => quiet /\ settled = <<Contents>>

\* No schedule is one that a save would refuse.
SchedulesOK ==
  /\ \A id \in Ids : scheds[id] \in Schedule => CleanSchedule(scheds[id])
  /\ \A i, j \in Ids : scheds[i].kind = "solar" /\ scheds[i] = scheds[j] => i = j

AbsentPlain == \A n \in Names : ~Present(n) => tasks[n] = NoRow

\* Without a notice row nothing has ever been written.
Blank(n) ==
  /\ ~Present(n) /\ snapshot[n].pk = 0
  /\ fresh[n] = NoEntry /\ s[n] = NoEntry /\ schedule[n] = NoEntry
NothingYet == notice = "none" => \A n \in Names : Blank(n)

\* What the loops go over, and what s can hold.
LoopsOver ==
  /\ pc \in {"down", "crashed"} => ret = "setup"
  /\ Looping => todo \subseteq Batch(batch)
  /\ pc \in {"save", "task"} => cur \in todo
  /\ pc = "disable" => \A n \in todo : snapshot[n].pk # 0
  /\ \A n \in Names : s[n] # NoEntry => Handled(n)

\* The schedule that from_entry() has in hand is the one that is wanted; if
\* a client has edited it meanwhile, all that depend on it count as touched.
InHand ==
  /\ pc \in {"save", "task"} => CleanSchedule(Wanted(cur))
  /\ pc = "save" /\ cur \notin disturbed =>
       IF found = NoId THEN Matching(Wanted(cur)) = {} ELSE scheds[found] = Wanted(cur)
  /\ pc = "save" /\ found # NoId /\ scheds[found] # Wanted(cur) =>
       Concerned(found, scheds[found]) \subseteq disturbed
  /\ pc = "task" => found # NoId
  /\ pc = "task" /\ cur \notin disturbed => scheds[found] = Wanted(cur)

\* After the first reload no task is enabled that cannot be read.
Read(n) == Installing \/ Serving \/ settled # <<>> => Readable(n)

Reload(n) ==
  /\ pc = "prefetch" => Copied(n)
  /\ pc = "disable" => IF n \in todo THEN Unreadable(n) ELSE Made(n)

\* Beat that has not seen a notice row has loaded nothing.
Unseen(n) ==
  Unpolled =>
    /\ Installing /\ ~Looping /\ pc # "poll" => ~Present(n) /\ s[n] = NoEntry /\ Dark(n)
    /\ Installing /\ batch = 2 => Dark(n)

\* An entry that is done has converged, and is in s or in the schedule; what
\* the schedule still shows of a task that was disabled, a reload removes.
Progress(n) ==
  /\ Handled(n) \/ Finished(n) \/ settled # <<>> => Converged(n)
  /\ Pending(n) => Agrees(n)
  /\ Handled(n) /\ Installable(n) =>
       /\ Entered(n)
       /\ Stale(n) => Reloading \/ (pc # "update" /\ ~Unpolled /\ notice = "new")
  /\ Finished(n) /\ Installable(n) => Shown(n)

TaskOK(n) == Read(n) /\ Reload(n) /\ Unseen(n) /\ (n \in DOMAIN config => Progress(n))

StartInv ==
  /\ HistoryOK /\ SchedulesOK /\ AbsentPlain /\ NothingYet /\ LoopsOver /\ InHand
  /\ \A n \in Names \ disturbed : TaskOK(n)

-----------------------------------------------------------------------------
(* What an entry makes of a row.                                           *)

\* A setting that has been applied changes nothing when it is applied again.
LEMMA GivenTwice == ASSUME NEW setting, NEW old PROVE Given(setting, Given(setting, old)) = Given(setting, old)
BY Zenon DEF Given

\* Only the kind of the schedule and the two flags decide whether the row of
\* an entry is valid, not which schedule it is.
LEMMA UnpackValid ==
  ASSUME NEW n, NEW old, NEW id \in Ids \cup {1}, config[n].kind \in Kinds
  PROVE  Valid(Unpack(n, old, id))
           <=> /\ ~(Given(config[n].expires, old.expires) /\ config[n].expire_seconds)
               /\ config[n].kind = "clocked" => Given(config[n].one_off, old.one_off)
<1> DEFINE row == Unpack(n, old, id)
<1>1. row.refs = Only(config[n].kind, id)
      /\ row.one_off = Given(config[n].one_off, old.one_off)
      /\ row.expires = Given(config[n].expires, old.expires)
      /\ row.expire_seconds = config[n].expire_seconds
  BY Zenon DEF Unpack
<1>2. \A k \in Kinds : row.refs[k] = IF k = config[n].kind THEN id ELSE NoId
  BY <1>1 DEF Only
<1>3. id # NoId
  BY DEF Ids, NoId
<1>4. \A k \in Kinds : row.refs[k] # NoId <=> k = config[n].kind
  BY <1>2, <1>3, Zenon
<1> HIDE DEF row
<1>5. ValidateUnique(row)
        <=> (config[n].kind = "clocked" => Given(config[n].one_off, old.one_off))
  <2>1. "clocked" \in Kinds
    BY Zenon DEF Kinds
  <2>2. QED
    BY <1>1, <1>4, <2>1, Zenon DEF ValidateUnique
<1>6. QED
  BY <1>1, <1>5, Zenon DEF Valid, CleanExpires, row

\* An entry that has been applied to a row changes nothing in it.
LEMMA UnpackTwice ==
  ASSUME NEW n, NEW old, NEW id, NEW row, row = Unpack(n, old, id)
  PROVE  row = Unpack(n, row, id)
<1>1. row.pk = old.pk
      /\ row.enabled = Given(config[n].enabled, old.enabled)
      /\ row.one_off = Given(config[n].one_off, old.one_off)
      /\ row.expires = Given(config[n].expires, old.expires)
  BY Zenon DEF Unpack
<1>2. /\ Given(config[n].enabled, row.enabled) = Given(config[n].enabled, old.enabled)
      /\ Given(config[n].one_off, row.one_off) = Given(config[n].one_off, old.one_off)
      /\ Given(config[n].expires, row.expires) = Given(config[n].expires, old.expires)
  <2>1. Given(config[n].enabled, row.enabled) = Given(config[n].enabled, old.enabled)
    BY <1>1, GivenTwice
  <2>2. Given(config[n].one_off, row.one_off) = Given(config[n].one_off, old.one_off)
    BY <1>1, GivenTwice
  <2>3. Given(config[n].expires, row.expires) = Given(config[n].expires, old.expires)
    BY <1>1, GivenTwice
  <2>4. QED
    BY <2>1, <2>2, <2>3
<1>3. Unpack(n, row, id)
        = [pk |-> row.pk, refs |-> Only(config[n].kind, id),
           enabled |-> Given(config[n].enabled, row.enabled),
           one_off |-> Given(config[n].one_off, row.one_off),
           expires |-> Given(config[n].expires, row.expires),
           expire_seconds |-> config[n].expire_seconds, parses |-> TRUE]
  BY Zenon DEF Unpack
<1>4. Unpack(n, old, id)
        = [pk |-> old.pk, refs |-> Only(config[n].kind, id),
           enabled |-> Given(config[n].enabled, old.enabled),
           one_off |-> Given(config[n].one_off, old.one_off),
           expires |-> Given(config[n].expires, old.expires),
           expire_seconds |-> config[n].expire_seconds, parses |-> TRUE]
  BY Zenon DEF Unpack
<1>5. Unpack(n, row, id) = Unpack(n, old, id)
  BY <1>1, <1>2, <1>3, <1>4, Zenon
<1>6. QED
  BY <1>5, Zenon

\* The schedule of the row is the one that the entry was given.
LEMMA SchedulerOfUnpack ==
  ASSUME NEW n, NEW old, NEW id \in Ids, config[n].kind \in Kinds
  PROVE  Scheduler(Unpack(n, old, id)) = id
<1> DEFINE row == Unpack(n, old, id)
<1>1. row.refs = Only(config[n].kind, id)
  BY Zenon DEF Unpack
<1>2. \A k \in Kinds : row.refs[k] = IF k = config[n].kind THEN id ELSE NoId
  BY <1>1 DEF Only
<1>3. id # NoId
  BY DEF Ids, NoId
<1> HIDE DEF row
<1>4. Scheduler(row) = id
  BY <1>2, <1>3 DEF Scheduler, Kinds
<1>5. QED
  BY <1>4 DEF row

\* The schedule of a valid row is one that it refers to.
LEMMA SchedulerIsRef ==
  ASSUME NEW row \in Row, Valid(row)
  PROVE  Scheduler(row) \in Ids /\ \E k \in Kinds : row.refs[k] = Scheduler(row)
<1>1. row.refs \in [Kinds -> Ids \cup {NoId}] /\ ValidateUnique(row)
  BY DEF Row, Valid
<1>2. Scheduler(row) \in Ids
  BY <1>1, SchedulerType
<1>3. \E k \in Kinds : row.refs[k] = Scheduler(row)
  BY <1>1 DEF Scheduler, Kinds
<1>4. QED
  BY <1>2, <1>3

-----------------------------------------------------------------------------
(* What keeps an entry as it is.                                           *)

\* Whether an entry can be installed depends on its row alone; an entry that
\* has converged stays so while its row and its schedule are left alone.
LEMMA ConvergedKept ==
  ASSUME NEW n, config' = config, tasks'[n] = tasks[n],
         \A id \in Ids : scheds[id] = Wanted(n) => scheds'[id] = Wanted(n)
  PROVE  (Installable(n)' <=> Installable(n)) /\ (Converged(n) => Converged(n)')
<1>1. Wanted(n)' = Wanted(n)
  BY Zenon DEF Wanted
<1>2. Unpack(n, tasks[n], 1)' = Unpack(n, tasks[n], 1)
  BY Zenon DEF Unpack
<1>3. Installable(n)' <=> Installable(n)
  BY <1>1, <1>2, Zenon DEF Installable
<1>4. Installed(n) => Installed(n)'
  <2> SUFFICES ASSUME Installed(n) PROVE Installed(n)'
    OBVIOUS
  <2>1. PICK id \in Ids : scheds[id] = Wanted(n) /\ tasks[n] = Unpack(n, tasks[n], id)
    BY Zenon DEF Installed
  <2>2. Present(n)'
    BY Zenon DEF Installed, Present
  <2>3. scheds'[id] = Wanted(n)'
    BY <1>1, <2>1
  <2>4. Unpack(n, tasks[n], id)' = Unpack(n, tasks[n], id)
    BY Zenon DEF Unpack
  <2>5. tasks'[n] = Unpack(n, tasks[n], id)'
    BY <2>1, <2>4
  <2>6. QED
    BY <2>2, <2>3, <2>5, Zenon DEF Installed
<1>5. Matching(Wanted(n)) # {} => Matching(Wanted(n))' # {}
  BY <1>1, Zenon DEF Matching
<1>6. QED
  BY <1>1, <1>3, <1>4, <1>5, Zenon DEF Converged

\* What the schedule, s and the row say of a task.
LEMMA DataKept ==
  ASSUME NEW n, UNCHANGED <<config, polled>>,
         tasks'[n] = tasks[n], s'[n] = s[n], schedule'[n] = schedule[n]
  PROVE  /\ Readable(n)' <=> Readable(n)
         /\ Entered(n)' <=> Entered(n)
         /\ Dark(n)' <=> Dark(n)
         /\ Stale(n)' <=> Stale(n)
         /\ Agrees(n)' <=> Agrees(n)
         /\ Shown(n)' <=> Shown(n)
         /\ Present(n)' <=> Present(n)
         /\ Unpolled' <=> Unpolled
<1>1. Readable(n)' <=> Readable(n)
  BY Zenon DEF Readable
<1>2. (Dark(n)' <=> Dark(n)) /\ (Stale(n)' <=> Stale(n)) /\ (Agrees(n)' <=> Agrees(n))
  BY Zenon DEF Dark, Stale, Agrees
<1>3. Wanted(n)' = Wanted(n)
  BY Zenon DEF Wanted
<1>4. (Entered(n)' <=> Entered(n)) /\ (Shown(n)' <=> Shown(n))
  BY <1>2, <1>3, Zenon DEF Entered, Shown
<1>5. (Present(n)' <=> Present(n)) /\ (Unpolled' <=> Unpolled)
  BY Zenon DEF Present, Unpolled
<1>6. QED
  BY <1>1, <1>2, <1>4, <1>5

\* What a reload holds of a task.
LEMMA MemoryKept ==
  ASSUME NEW n, tasks'[n] = tasks[n], snapshot'[n] = snapshot[n], fresh'[n] = fresh[n],
         tasks[n].enabled => Meaning(tasks[n])' = Meaning(tasks[n])
  PROVE  /\ Copied(n)' <=> Copied(n)
         /\ Unreadable(n)' <=> Unreadable(n)
         /\ Made(n)' <=> Made(n)
<1>1. Copied(n)' <=> Copied(n)
  BY Zenon DEF Copied
<1>2. Unreadable(n)' <=> Unreadable(n)
  BY Zenon DEF Unreadable
<1>3. Made(n)' <=> Made(n)
  BY Zenon DEF Made
<1>4. QED
  BY <1>1, <1>2, <1>3

\* A step of others, as a task sees it that it does not touch.
LEMMA TaskKept ==
  ASSUME NEW n, TaskOK(n),
         UNCHANGED <<config, pc, ret, batch, todo, polled, snapshot, fresh, s, schedule>>,
         settled' \in {settled, <<>>}, notice' \in {notice, "new"},
         tasks'[n] = tasks[n],
         tasks[n].enabled => Meaning(tasks[n])' = Meaning(tasks[n]),
         n \in DOMAIN config =>
           \A id \in Ids : scheds[id] = Wanted(n) => scheds'[id] = Wanted(n)
  PROVE  TaskOK(n)'
<1>1. /\ Readable(n)' <=> Readable(n)
      /\ Entered(n)' <=> Entered(n)
      /\ Dark(n)' <=> Dark(n)
      /\ Stale(n)' <=> Stale(n)
      /\ Agrees(n)' <=> Agrees(n)
      /\ Shown(n)' <=> Shown(n)
      /\ Present(n)' <=> Present(n)
      /\ Unpolled' <=> Unpolled
  BY DataKept
<1>2. n \in DOMAIN config =>
        (Installable(n)' <=> Installable(n)) /\ (Converged(n) => Converged(n)')
  BY ConvergedKept
<1>3. (Reloading' <=> Reloading) /\ (Looping' <=> Looping) /\ (Installing' <=> Installing)
      /\ (Serving' <=> Serving)
  BY Zenon DEF Reloading, Looping, Installing, Serving
<1>4. \A b : Batch(b)' = Batch(b)
  BY Zenon DEF Batch
<1>5. (Pending(n)' <=> Pending(n)) /\ (Handled(n)' <=> Handled(n))
      /\ (Finished(n)' <=> Finished(n))
  BY <1>3, <1>4, Zenon DEF Pending, Handled, Finished
<1>6. settled' # <<>> => settled # <<>>
  BY Zenon
<1>7. Read(n)' /\ Reload(n)'
  BY <1>1, <1>3, <1>6, MemoryKept, Zenon DEF TaskOK, Read, Reload
<1>8. Unseen(n)'
  BY <1>1, <1>3, Zenon DEF TaskOK, Unseen
<1>9. n \in DOMAIN config => Progress(n)'
  BY <1>1, <1>2, <1>3, <1>5, <1>6, Zenon DEF TaskOK, Progress
<1>10. QED
  BY <1>7, <1>8, <1>9, Zenon DEF TaskOK

-----------------------------------------------------------------------------
(* What clients leave of it.                                               *)

\* No schedule is the absent one.
LEMMA NoScheduleApart ==
  /\ NoSchedule \notin Schedule
  /\ NoSchedule.kind \notin Kinds
  /\ \A k \in Kinds : k # NoSchedule.kind
BY DEF NoSchedule, Schedule, Kinds

LEMMA WantedApart ==
  ASSUME config \in Configs, NEW n \in DOMAIN config
  PROVE  n \in Names /\ Wanted(n) # NoSchedule
<1>1. config[n] \in Entry /\ n \in Names
  BY EntryType
<1>2. config[n].kind \in Kinds \cup {"unknown"}
  BY <1>1, Zenon DEF Entry
<1>3. Wanted(n).kind # NoSchedule.kind
  BY <1>2 DEF Wanted, NoSchedule, Kinds
<1>4. QED
  BY <1>1, <1>3

\* A schedule that passes its checks takes the place of another.
LEMMA SchedulesKept ==
  ASSUME SchedulesOK, scheds \in [Ids -> Schedule \cup {NoSchedule}], NEW id \in Ids,
         NEW sched, CleanSchedule(sched), UniqueSolar(id, sched),
         scheds' = [scheds EXCEPT ![id] = sched]
  PROVE  SchedulesOK'
<1>1. scheds'[id] = sched /\ \A j \in Ids \ {id} : scheds'[j] = scheds[j]
  BY Zenon
<1>2. ASSUME NEW j \in Ids, scheds'[j] \in Schedule PROVE CleanSchedule(scheds'[j])
  BY <1>1, <1>2, Zenon DEF SchedulesOK
<1>3. ASSUME NEW i \in Ids, NEW j \in Ids, scheds'[i].kind = "solar", scheds'[i] = scheds'[j],
             i # j
      PROVE  FALSE
  <2>1. CASE i # id /\ j # id
    BY <1>1, <1>3, <2>1, Zenon DEF SchedulesOK
  <2>2. CASE i = id
    BY <1>1, <1>3, <2>2, Zenon DEF UniqueSolar
  <2>3. CASE j = id
    BY <1>1, <1>3, <2>3, Zenon DEF UniqueSolar
  <2>4. QED
    BY <2>1, <2>2, <2>3, Zenon
<1>4. QED
  BY <1>2, <1>3, Zenon DEF SchedulesOK

\* What an enabled task is scheduled by, while the schedules that it refers
\* to stay.
LEMMA MeaningKept ==
  ASSUME IInv, AbsentPlain, NEW n \in Names, tasks'[n] = tasks[n],
         \A id \in Ids : Refers(n, id) /\ scheds[id] # NoSchedule => scheds'[id] = scheds[id]
  PROVE  tasks[n].enabled => Meaning(tasks[n])' = Meaning(tasks[n])
<1> SUFFICES ASSUME tasks[n].enabled PROVE Meaning(tasks[n])' = Meaning(tasks[n])
  OBVIOUS
<1>1. NoRow.enabled = FALSE
  BY Zenon DEF NoRow
<1>2. Present(n)
  BY <1>1, Zenon DEF AbsentPlain
<1>3. Valid(tasks[n]) /\ RefsExist(tasks[n]) /\ tasks[n] \in Row
  BY <1>2, Zenon DEF IInv, TypeOK, RowsConsistent
<1>4. Scheduler(tasks[n]) \in Ids
  BY <1>3, SchedulerIsRef, Zenon
<1>5. PICK k \in Kinds : tasks[n].refs[k] = Scheduler(tasks[n])
  BY <1>3, SchedulerIsRef, Zenon
<1>6. Refers(n, Scheduler(tasks[n]))
  BY <1>5, Zenon DEF Refers
<1>7. tasks[n].refs[k] # NoId
  BY <1>4, <1>5 DEF Ids, NoId
<1>8. scheds[Scheduler(tasks[n])].kind = k
  BY <1>3, <1>5, <1>7, Zenon DEF RefsExist
<1>9. scheds[Scheduler(tasks[n])] # NoSchedule
  BY <1>8, NoScheduleApart, Zenon
<1>10. scheds'[Scheduler(tasks[n])] = scheds[Scheduler(tasks[n])]
  BY <1>4, <1>6, <1>9, Zenon
<1>11. QED
  BY <1>10, Zenon DEF Meaning

\* A client's step, from what it does to the tables.
LEMMA ClientStart ==
  ASSUME IInv, StartInv, NEW op, NEW touched, Client(op, touched),
         SchedulesOK', AbsentPlain', InHand',
         \A n \in Names \ (disturbed \cup touched) :
           /\ tasks'[n] = tasks[n]
           /\ \A id \in Ids : Refers(n, id) /\ scheds[id] # NoSchedule
                                => scheds'[id] = scheds[id]
           /\ n \in DOMAIN config =>
                \A id \in Ids : scheds[id] = Wanted(n) => scheds'[id] = Wanted(n)
  PROVE  StartInv'
<1>1. UNCHANGED <<config, pc, todo, batch, ret, s, schedule, snapshot, fresh, polled>>
      /\ notice' = "new" /\ quiet' = FALSE /\ disturbed' = disturbed \cup touched
      /\ settled' = <<>>
  BY Zenon DEF Client, loadVars, entryVars
<1>2. HistoryOK'
  BY <1>1, Zenon DEF HistoryOK
<1>3. NothingYet'
  <2>1. notice' # "none"
    BY <1>1
  <2>2. QED
    BY <2>1, Zenon DEF NothingYet
<1>4. LoopsOver'
  <2>1. \A b : Batch(b)' = Batch(b)
    BY <1>1, Zenon DEF Batch
  <2>2. (Looping' <=> Looping) /\ (Installing' <=> Installing)
    BY <1>1, Zenon DEF Looping, Installing, Reloading
  <2>3. \A n : Handled(n)' <=> Handled(n)
    BY <1>1, <2>1, <2>2, Zenon DEF Handled
  <2>4. cur' = cur
    BY Zenon DEF Client, entryVars
  <2>5. QED
    BY <1>1, <2>1, <2>2, <2>3, <2>4, Zenon DEF StartInv, LoopsOver
<1>5. ASSUME NEW n \in Names \ disturbed' PROVE TaskOK(n)'
  <2>1. n \in Names /\ n \notin disturbed /\ n \in Names \ (disturbed \cup touched)
    BY <1>1, <1>5, Zenon
  <2>2. TaskOK(n) /\ AbsentPlain
    BY <2>1, Zenon DEF StartInv
  <2>3. tasks[n].enabled => Meaning(tasks[n])' = Meaning(tasks[n])
    BY <2>1, <2>2, MeaningKept, Zenon
  <2>4. tasks'[n] = tasks[n]
        /\ (n \in DOMAIN config =>
              \A id \in Ids : scheds[id] = Wanted(n) => scheds'[id] = Wanted(n))
    BY <2>1, Zenon
  <2>5. settled' \in {settled, <<>>} /\ notice' \in {notice, "new"}
    BY <1>1, Zenon
  <2>6. QED
    BY <1>1, <2>2, <2>3, <2>4, <2>5, TaskKept, Zenon
<1>6. QED
  BY <1>2, <1>3, <1>4, <1>5, Zenon DEF StartInv

\* The entry in hand, after a client's step.
LEMMA InHandKept ==
  ASSUME IInv, InHand, UNCHANGED <<pc, cur, found, config>>, disturbed \subseteq disturbed',
         pc \in {"save", "task"} /\ cur \notin disturbed' =>
           \A id \in Ids : scheds'[id] = Wanted(cur) <=> scheds[id] = Wanted(cur),
         pc = "save" /\ found # NoId /\ scheds'[found] # Wanted(cur) =>
           Concerned(found, scheds[found])' \subseteq disturbed'
  PROVE  InHand'
<1>1. Wanted(cur)' = Wanted(cur)
  BY Zenon DEF Wanted
<1>2. pc' \in {"save", "task"} => CleanSchedule(Wanted(cur)')
  BY <1>1, Zenon DEF InHand
<1>3. found # NoId => found \in Ids
  BY DEF IInv, TypeOK
<1>4. pc' = "save" /\ cur' \notin disturbed' =>
        IF found' = NoId THEN Matching(Wanted(cur))' = {} ELSE scheds'[found'] = Wanted(cur)'
  <2> SUFFICES ASSUME pc = "save", cur \notin disturbed'
               PROVE IF found = NoId THEN Matching(Wanted(cur))' = {}
                     ELSE scheds'[found] = Wanted(cur)
    BY <1>1, Zenon
  <2>1. cur \notin disturbed
    BY Zenon
  <2>2. \A id \in Ids : scheds'[id] = Wanted(cur) <=> scheds[id] = Wanted(cur)
    BY Zenon
  <2>3. CASE found = NoId
    <3>1. \A id \in Ids : scheds[id] # Wanted(cur)
      BY <2>1, <2>3, Zenon DEF InHand, Matching
    <3>2. \A id \in Ids : scheds'[id] # Wanted(cur)
      BY <2>2, <3>1, Zenon
    <3>3. QED
      BY <1>1, <2>3, <3>2, Zenon DEF Matching
  <2>4. CASE found # NoId
    BY <1>3, <2>1, <2>2, <2>4, Zenon DEF InHand
  <2>5. QED
    BY <2>3, <2>4, Zenon
<1>5. pc' = "save" /\ found' # NoId /\ scheds'[found'] # Wanted(cur)' =>
        Concerned(found, scheds[found])' \subseteq disturbed'
  BY <1>1, Zenon
<1>6. pc' = "task" => found' # NoId /\ (cur' \notin disturbed' => scheds'[found'] = Wanted(cur)')
  BY <1>1, <1>3, Zenon DEF InHand
<1>7. QED
  BY <1>1, <1>2, <1>4, <1>5, <1>6, Zenon DEF InHand

\* A client that writes one row, or removes it.
LEMMA RowStart ==
  ASSUME IInv, StartInv, NEW op, NEW n \in Names, Client(op, {n}), NEW row,
         row.pk = 0 => row = NoRow,
         tasks' = [tasks EXCEPT ![n] = row], UNCHANGED scheds
  PROVE  StartInv'
<1>1. tasks \in [Names -> Row]
  BY Zenon DEF IInv, TypeOK
<1>2. tasks'[n] = row /\ \A m \in Names \ {n} : tasks'[m] = tasks[m]
  BY <1>1, Zenon
<1>3. SchedulesOK'
  BY Zenon DEF StartInv, SchedulesOK
<1>4. AbsentPlain'
  BY <1>2, Zenon DEF StartInv, AbsentPlain, Present
<1>5. UNCHANGED <<pc, cur, found, config>> /\ disturbed' = disturbed \cup {n}
  BY Zenon DEF Client, entryVars
<1>6. InHand'
  <2>1. Concerned(found, scheds[found])' \subseteq Concerned(found, scheds[found]) \cup {n}
    BY <1>2, <1>5, Zenon DEF Concerned, Refers
  <2>2. pc = "save" /\ found # NoId /\ scheds'[found] # Wanted(cur) =>
          Concerned(found, scheds[found])' \subseteq disturbed'
    BY <1>5, <2>1, Zenon DEF StartInv, InHand
  <2>3. InHand /\ disturbed \subseteq disturbed'
    BY <1>5, Zenon DEF StartInv
  <2>4. \A id \in Ids : scheds'[id] = Wanted(cur) <=> scheds[id] = Wanted(cur)
    OBVIOUS
  <2>5. QED
    BY <1>5, <2>2, <2>3, <2>4, InHandKept, Zenon
<1>7. \A m \in Names \ (disturbed \cup {n}) :
        /\ tasks'[m] = tasks[m]
        /\ \A id \in Ids : Refers(m, id) /\ scheds[id] # NoSchedule => scheds'[id] = scheds[id]
        /\ m \in DOMAIN config =>
             \A id \in Ids : scheds[id] = Wanted(m) => scheds'[id] = Wanted(m)
  BY <1>2, Zenon
<1>8. QED
  BY <1>3, <1>4, <1>6, <1>7, ClientStart, Zenon

LEMMA SaveTaskStart == ASSUME IInv, StartInv, NEW n \in Names, SaveTask(n) PROVE StartInv'
<1>1. Client("saveTask", {n}) /\ UNCHANGED scheds
  BY DEF SaveTask
<1>2. PICK id \in Ids, enabled, one_off, expires, expire_seconds, parses \in BOOLEAN :
        LET row == [pk |-> IF Present(n) THEN tasks[n].pk ELSE nextPk,
                    refs |-> Only(scheds[id].kind, id), enabled |-> enabled,
                    one_off |-> one_off, expires |-> expires,
                    expire_seconds |-> expire_seconds, parses |-> parses]
        IN /\ Valid(row) /\ RefsExist(row)
           /\ tasks' = [tasks EXCEPT ![n] = row]
           /\ nextPk' = IF Present(n) THEN nextPk ELSE nextPk + 1
  BY Zenon DEF SaveTask
<1> DEFINE row == [pk |-> IF Present(n) THEN tasks[n].pk ELSE nextPk,
                   refs |-> Only(scheds[id].kind, id), enabled |-> enabled,
                   one_off |-> one_off, expires |-> expires,
                   expire_seconds |-> expire_seconds, parses |-> parses]
<1>3. nextPk # 0
  BY DEF IInv, TypeOK
<1>4. row.pk # 0
  BY <1>3, Zenon DEF Present
<1> HIDE DEF row
<1>5. tasks' = [tasks EXCEPT ![n] = row]
  BY <1>2, Zenon DEF row
<1>6. QED
  BY <1>1, <1>4, <1>5, RowStart, Zenon

LEMMA DeleteTaskStart == ASSUME IInv, StartInv, NEW n \in Names, DeleteTask(n) PROVE StartInv'
<1>1. Client("deleteTask", {n}) /\ tasks' = [tasks EXCEPT ![n] = NoRow] /\ UNCHANGED scheds
  BY DEF DeleteTask
<1>2. QED
  BY <1>1, RowStart, Zenon

\* A client that puts a schedule where there was another, or none.
LEMMA ScheduleStart ==
  ASSUME IInv, StartInv, NEW op, NEW id \in Ids, NEW sched, NEW touched,
         Client(op, touched), CleanSchedule(sched), UniqueSolar(id, sched),
         Concerned(id, sched) \subseteq touched,
         scheds[id] # NoSchedule => Concerned(id, scheds[id]) \subseteq touched,
         scheds' = [scheds EXCEPT ![id] = sched], UNCHANGED tasks
  PROVE  StartInv'
<1>1. scheds \in [Ids -> Schedule \cup {NoSchedule}]
  BY Zenon DEF IInv, TypeOK
<1>2. scheds'[id] = sched /\ \A j \in Ids \ {id} : scheds'[j] = scheds[j]
  BY <1>1, Zenon
<1>3. SchedulesOK'
  BY <1>1, SchedulesKept, Zenon DEF StartInv
<1>4. AbsentPlain'
  BY Zenon DEF StartInv, AbsentPlain, Present
<1>5. UNCHANGED <<pc, cur, found, config>> /\ disturbed' = disturbed \cup touched
  BY Zenon DEF Client, entryVars
<1>6. config \in Configs
  BY Zenon DEF IInv, TypeOK
<1>7. ASSUME NEW m \in DOMAIN config, m \notin touched
      PROVE  sched # Wanted(m) /\ (scheds[id] = Wanted(m) => scheds[id] = NoSchedule)
  <2>1. m \in Names
    BY <1>6, <1>7, EntryType
  <2>2. QED
    BY <1>7, <2>1, Zenon DEF Concerned, Wanted
<1>8. \A m \in DOMAIN config : NoSchedule # Wanted(m)
  BY <1>6, WantedApart
<1>9. InHand'
  <2>1. InHand /\ disturbed \subseteq disturbed'
    BY <1>5, Zenon DEF StartInv
  <2>2. Concerned(found, sched)' = Concerned(found, sched)
        /\ Concerned(found, scheds[found])' = Concerned(found, scheds'[found])
    BY <1>5, Zenon DEF Concerned, Refers
  <2>3. pc = "save" /\ found # NoId /\ scheds'[found] # Wanted(cur) =>
          Concerned(found, scheds[found])' \subseteq disturbed'
    <3> SUFFICES ASSUME pc = "save", found # NoId, scheds'[found] # Wanted(cur)
                 PROVE  Concerned(found, scheds'[found]) \subseteq disturbed'
      BY <2>2, Zenon
    <3>1. found \in Ids
      BY DEF IInv, TypeOK
    <3>2. CASE found = id
      BY <1>2, <1>5, <3>2, Zenon
    <3>3. CASE found # id
      BY <1>2, <1>5, <2>1, <3>1, <3>3, Zenon DEF InHand
    <3>4. QED
      BY <3>2, <3>3
  <2>4. ASSUME pc \in {"save", "task"}, cur \notin disturbed', NEW j \in Ids
        PROVE scheds'[j] = Wanted(cur) <=> scheds[j] = Wanted(cur)
    <3>1. cur \in DOMAIN config /\ cur \notin touched
      BY <1>5, <2>4, Zenon DEF IInv, LoopsDefined
    <3>2. CASE j = id
      BY <1>2, <1>7, <1>8, <3>1, <3>2, Zenon
    <3>3. CASE j # id
      BY <1>2, <3>3, Zenon
    <3>4. QED
      BY <3>2, <3>3
  <2>5. QED
    BY <1>5, <2>1, <2>3, <2>4, InHandKept, Zenon
<1>10. ASSUME NEW m \in Names \ (disturbed \cup touched)
       PROVE  /\ tasks'[m] = tasks[m]
              /\ \A j \in Ids : Refers(m, j) /\ scheds[j] # NoSchedule => scheds'[j] = scheds[j]
              /\ m \in DOMAIN config =>
                   \A j \in Ids : scheds[j] = Wanted(m) => scheds'[j] = Wanted(m)
  <2>1. m \in Names /\ m \notin touched
    BY <1>10
  <2>2. Refers(m, id) => scheds[id] = NoSchedule
    BY <2>1, Zenon DEF Concerned
  <2>3. m \in DOMAIN config => scheds[id] # Wanted(m)
    BY <1>7, <1>8, <2>1, Zenon
  <2>4. QED
    BY <1>2, <2>2, <2>3, Zenon
<1>11. QED
  BY <1>3, <1>4, <1>9, <1>10, ClientStart, Zenon

LEMMA AddScheduleStart ==
  ASSUME IInv, StartInv, NEW sched \in Schedule, AddSchedule(sched) PROVE StartInv'
<1>1. Client("addSchedule", Concerned(nextId, sched)) /\ nextId <= MaxId
      /\ CleanSchedule(sched) /\ UniqueSolar(nextId, sched)
      /\ scheds' = [scheds EXCEPT ![nextId] = sched] /\ UNCHANGED tasks
  BY DEF AddSchedule
<1>2. nextId \in Ids
  BY <1>1, BoundsAssumption DEF IInv, TypeOK, Ids
<1>3. scheds[nextId] = NoSchedule
  BY <1>2 DEF IInv, KeysFresh, Ids
<1>4. QED
  BY <1>1, <1>2, <1>3, ScheduleStart, Zenon

LEMMA EditScheduleStart ==
  ASSUME IInv, StartInv, NEW id \in Ids, NEW value \in Values, EditSchedule(id, value)
  PROVE  StartInv'
<1> DEFINE sched == [scheds[id] EXCEPT !.value = value]
<1>1. Client("editSchedule", Concerned(id, sched) \cup Concerned(id, scheds[id]))
      /\ CleanSchedule(sched) /\ UniqueSolar(id, sched)
      /\ scheds' = [scheds EXCEPT ![id] = sched] /\ UNCHANGED tasks
  BY DEF EditSchedule
<1> HIDE DEF sched
<1>2. QED
  BY <1>1, ScheduleStart, Zenon

\* With a schedule go the tasks that refer to it, and no others.
LEMMA DeleteScheduleStart ==
  ASSUME IInv, StartInv, NEW id \in Ids, DeleteSchedule(id) PROVE StartInv'
<1> DEFINE touched == Concerned(id, scheds[id])
<1>1. Client("deleteSchedule", touched) /\ scheds[id] \in Schedule
      /\ scheds' = [scheds EXCEPT ![id] = NoSchedule]
      /\ tasks' = [n \in Names |-> IF Refers(n, id) THEN NoRow ELSE tasks[n]]
  BY DEF DeleteSchedule
<1>2. scheds \in [Ids -> Schedule \cup {NoSchedule}] /\ config \in Configs
  BY Zenon DEF IInv, TypeOK
<1>3. scheds'[id] = NoSchedule /\ \A j \in Ids \ {id} : scheds'[j] = scheds[j]
  BY <1>1, <1>2, Zenon
<1>4. UNCHANGED <<pc, cur, found, config>> /\ disturbed' = disturbed \cup touched
  BY <1>1, Zenon DEF Client, entryVars
<1>5. SchedulesOK'
  <2>1. ASSUME NEW j \in Ids, scheds'[j] \in Schedule PROVE CleanSchedule(scheds'[j])
    BY <1>3, <2>1, NoScheduleApart, Zenon DEF StartInv, SchedulesOK
  <2>2. NoSchedule.kind # "solar"
    BY DEF NoSchedule
  <2>3. ASSUME NEW i \in Ids, NEW j \in Ids, scheds'[i].kind = "solar",
               scheds'[i] = scheds'[j]
        PROVE  i = j
    BY <1>3, <2>2, <2>3, Zenon DEF StartInv, SchedulesOK
  <2>4. QED
    BY <2>1, <2>3, Zenon DEF SchedulesOK
<1>6. AbsentPlain'
  BY <1>1, Zenon DEF StartInv, AbsentPlain, Present
<1>7. \A n \in Names : Refers(n, id) => n \in touched
  BY Zenon DEF Concerned
<1>8. \A n \in DOMAIN config : Wanted(n) = scheds[id] => n \in touched
  <2>1. \A n \in DOMAIN config : n \in Names
    BY <1>2, EntryType
  <2>2. QED
    BY <2>1, Zenon DEF Concerned, Wanted
<1>9. \A n \in DOMAIN config : NoSchedule # Wanted(n)
  BY <1>2, WantedApart
<1>10. \A n \in Names, j \in Ids : Refers(n, j)' => Refers(n, j) /\ j # id
  <2> SUFFICES ASSUME NEW n \in Names, NEW j \in Ids, Refers(n, j)'
               PROVE  Refers(n, j) /\ j # id
    OBVIOUS
  <2>1. PICK k \in Kinds : tasks'[n].refs[k] = j
    BY Zenon DEF Refers
  <2>2. j # NoId /\ NoRow.refs[k] = NoId
    BY DEF Ids, NoId, NoRow
  <2>3. tasks'[n] = tasks[n] /\ ~Refers(n, id)
    BY <1>1, <2>1, <2>2, Zenon
  <2>4. QED
    BY <2>1, <2>3, Zenon DEF Refers
<1> HIDE DEF touched
<1>11. InHand'
  <2>1. InHand /\ disturbed \subseteq disturbed'
    BY <1>4, Zenon DEF StartInv
  <2>2. pc = "save" /\ found # NoId /\ scheds'[found] # Wanted(cur) =>
          Concerned(found, scheds[found])' \subseteq disturbed'
    <3> SUFFICES ASSUME pc = "save", found # NoId, scheds'[found] # Wanted(cur),
                        NEW n \in Concerned(found, scheds[found])'
                 PROVE  n \in disturbed'
      BY Zenon
    <3>1. found \in Ids
      BY DEF IInv, TypeOK
    <3>2. (n \in Names /\ \E j \in Ids : j = found /\ Refers(n, j)')
          \/ (n \in DOMAIN config /\ Wanted(n) = scheds'[found])
      BY <1>4, <3>1, Zenon DEF Concerned, Wanted, Refers
    <3>3. found # id
      BY <1>3, <1>9, <1>10, <3>1, <3>2, Zenon
    <3>4. scheds'[found] = scheds[found]
      BY <1>3, <3>1, <3>3, Zenon
    <3>5. n \in Concerned(found, scheds[found])
      <4>1. \A m \in DOMAIN config : m \in Names
        BY <1>2, EntryType
      <4>2. QED
        BY <1>10, <3>1, <3>2, <3>4, <4>1, Zenon DEF Concerned, Wanted
    <3>6. QED
      BY <2>1, <3>4, <3>5, Zenon DEF InHand
  <2>3. ASSUME pc \in {"save", "task"}, cur \notin disturbed', NEW j \in Ids
        PROVE scheds'[j] = Wanted(cur) <=> scheds[j] = Wanted(cur)
    <3>1. cur \in DOMAIN config /\ cur \notin touched
      BY <1>4, <2>3, Zenon DEF IInv, LoopsDefined
    <3>2. QED
      BY <1>3, <1>8, <1>9, <3>1, Zenon
  <2>4. QED
    BY <1>4, <2>1, <2>2, <2>3, InHandKept, Zenon
<1>12. ASSUME NEW m \in Names \ (disturbed \cup touched)
       PROVE  /\ tasks'[m] = tasks[m]
              /\ \A j \in Ids : Refers(m, j) /\ scheds[j] # NoSchedule => scheds'[j] = scheds[j]
              /\ m \in DOMAIN config =>
                   \A j \in Ids : scheds[j] = Wanted(m) => scheds'[j] = Wanted(m)
  <2>1. m \in Names /\ ~Refers(m, id)
    BY <1>7, <1>12, Zenon
  <2>2. m \in DOMAIN config => Wanted(m) # scheds[id]
    BY <1>8, <1>12, Zenon
  <2>3. QED
    BY <1>1, <1>3, <2>1, <2>2, Zenon
<1>13. QED
  BY <1>1, <1>5, <1>6, <1>11, <1>12, ClientStart, Zenon

\* What clients do, a start takes into account.
LEMMA ClientStepStart == ASSUME IInv, StartInv, ClientStep PROVE StartInv'
BY SaveTaskStart, DeleteTaskStart, AddScheduleStart, EditScheduleStart,
   DeleteScheduleStart, Zenon
DEF ClientStep

-----------------------------------------------------------------------------
(* The life of beat, and the reload.                                       *)

LEMMA ContentsKept == ASSUME UNCHANGED <<config, scheds, tasks>> PROVE Contents' = Contents
BY Zenon DEF Contents, Present, Meaning

\* A step that leaves the tables alone.
LEMMA TablesKept ==
  ASSUME StartInv, UNCHANGED <<config, scheds, tasks, quiet, disturbed, settled>>
  PROVE  HistoryOK' /\ SchedulesOK' /\ AbsentPlain'
<1>1. HistoryOK'
  BY ContentsKept, Zenon DEF StartInv, HistoryOK
<1>2. SchedulesOK' /\ AbsentPlain'
  BY Zenon DEF StartInv, SchedulesOK, AbsentPlain, Present
<1>3. QED
  BY <1>1, <1>2

\* The end of a process leaves what is settled.
LEMMA ForgetStart ==
  ASSUME IInv, StartInv, ForgetProcess, pc' \in {"down", "crashed"},
         UNCHANGED <<dbVars, config, history>>
  PROVE  StartInv'
<1>1. UNCHANGED <<scheds, tasks, notice, quiet, disturbed, settled>>
  BY DEF dbVars, history
<1>2. ret' = "setup" /\ s' = NoEntries /\ schedule' = NoEntries /\ snapshot' = NoRows
      /\ fresh' = NoEntries
  BY DEF ForgetProcess
<1>3. HistoryOK' /\ SchedulesOK' /\ AbsentPlain'
  BY <1>1, TablesKept
<1>4. \A n \in Names : snapshot'[n].pk = 0 /\ fresh'[n] = NoEntry /\ s'[n] = NoEntry
                       /\ schedule'[n] = NoEntry
  BY <1>2 DEF NoRows, NoRow, NoEntries
<1>5. NothingYet'
  BY <1>1, <1>4, Zenon DEF StartInv, NothingYet, Blank, Present
<1>6. ~Reloading' /\ ~Looping' /\ ~Installing' /\ ~Serving'
      /\ pc' \notin {"prefetch", "disable", "save", "task"}
  BY DEF Reloading, Looping, Installing, Serving
<1>7. LoopsOver' /\ InHand'
  BY <1>2, <1>4, <1>6, Zenon DEF LoopsOver, InHand
<1>8. ASSUME NEW n \in Names \ disturbed' PROVE TaskOK(n)'
  <2>1. TaskOK(n)
    BY <1>1, <1>8, Zenon DEF StartInv
  <2>2. Readable(n)' <=> Readable(n)
    BY <1>1, Zenon DEF Readable
  <2>3. Converged(n) => Converged(n)'
    BY <1>1, ConvergedKept, Zenon
  <2>4. Read(n)' /\ Reload(n)' /\ Unseen(n)'
    BY <1>1, <1>6, <2>1, <2>2, Zenon DEF TaskOK, Read, Reload, Unseen
  <2>5. n \in DOMAIN config => Progress(n)'
    BY <1>1, <1>6, <2>1, <2>3, Zenon DEF TaskOK, Progress, Pending, Handled, Finished
  <2>6. QED
    BY <2>4, <2>5, Zenon DEF TaskOK
<1>9. QED
  BY <1>3, <1>5, <1>7, <1>8, Zenon DEF StartInv

LEMMA StopStart == ASSUME IInv, StartInv, Stop PROVE StartInv'
<1>1. pc' = "down" /\ ForgetProcess /\ UNCHANGED <<dbVars, config, history>>
  BY DEF Stop
<1>2. QED
  BY <1>1, ForgetStart

LEMMA PrefetchFailsStart == ASSUME IInv, StartInv, PrefetchFails PROVE StartInv'
<1>1. Crash /\ UNCHANGED <<dbVars, config, history>>
  BY DEF PrefetchFails
<1>2. QED
  BY <1>1, ForgetStart DEF Crash

\* From here on no task counts as touched: only what is settled is known.
LEMMA StartStart == ASSUME IInv, StartInv, Start PROVE StartInv'
<1>1. UNCHANGED <<scheds, tasks, notice, todo, ret, snapshot, fresh, polled, batch, cur,
                  found, s, schedule>>
      /\ pc \in {"down", "crashed"} /\ pc' = "query" /\ quiet' = TRUE /\ disturbed' = {}
      /\ settled' = IF config' = config THEN settled ELSE <<>>
  BY DEF Start, dbVars, loadVars, entryVars
<1>2. settled' # <<>> => config' = config /\ settled' = settled
  BY <1>1, Zenon
<1>3. ret = "setup"
  BY <1>1, Zenon DEF StartInv, LoopsOver
<1>4. ~Installing /\ ~Serving /\ ~Installing' /\ ~Serving' /\ ~Looping'
  BY <1>1, <1>3 DEF Reloading, Looping, Installing, Serving
<1>5. HistoryOK'
  BY <1>1, <1>2, ContentsKept, Zenon DEF StartInv, HistoryOK
<1>6. SchedulesOK' /\ AbsentPlain' /\ NothingYet'
  BY <1>1, Zenon DEF StartInv, SchedulesOK, AbsentPlain, NothingYet, Blank, Present
<1>7. LoopsOver' /\ InHand'
  <2>1. \A n \in Names : s[n] = NoEntry
    BY <1>4, Zenon DEF StartInv, LoopsOver, Handled
  <2>2. pc' \notin {"down", "crashed", "save", "task", "disable"}
    BY <1>1
  <2>3. QED
    BY <1>1, <1>4, <2>1, <2>2, Zenon DEF LoopsOver, InHand
<1>8. ASSUME NEW n \in Names \ disturbed' PROVE TaskOK(n)'
  <2>1. CASE settled' # <<>>
    <3>1. config' = config /\ settled # <<>> /\ TaskOK(n)
      BY <1>2, <1>8, <2>1, Zenon DEF StartInv, HistoryOK
    <3>2. Readable(n)' <=> Readable(n)
      BY <1>1, Zenon DEF Readable
    <3>3. Converged(n) => Converged(n)'
      BY <1>1, <3>1, ConvergedKept, Zenon
    <3>4. pc' \notin {"prefetch", "disable"}
      BY <1>1
    <3>5. Read(n)' /\ Reload(n)' /\ Unseen(n)'
      BY <1>4, <3>1, <3>2, <3>4, Zenon DEF TaskOK, Read, Reload, Unseen
    <3>6. n \in DOMAIN config => Progress(n)'
      BY <1>4, <3>1, <3>3, Zenon DEF TaskOK, Progress, Pending, Handled, Finished
    <3>7. QED
      BY <3>1, <3>5, <3>6, Zenon DEF TaskOK
  <2>2. CASE settled' = <<>>
    <3>1. pc' \notin {"prefetch", "disable"}
      BY <1>1
    <3>2. QED
      BY <1>4, <2>2, <3>1, Zenon DEF TaskOK, Read, Reload, Unseen, Progress, Pending,
         Handled, Finished
  <2>3. QED
    BY <2>1, <2>2
<1>9. QED
  BY <1>5, <1>6, <1>7, <1>8, Zenon DEF StartInv

\* Within a reload the schedule and the entries stay as they are.
LEMMA ReloadKept ==
  ASSUME NEW n, TaskOK(n), Reloading, Reloading',
         UNCHANGED <<config, scheds, ret, batch, polled, notice, s, schedule, settled>>,
         tasks'[n] = tasks[n]
  PROVE  Read(n)' /\ Unseen(n)' /\ (n \in DOMAIN config => Progress(n)')
<1>1. ~Looping /\ ~Looping' /\ pc \notin {"poll", "update", "ready"}
      /\ pc' \notin {"poll", "update", "ready"}
  BY DEF Reloading, Looping
<1>2. (Installing' <=> Installing) /\ (Serving' <=> Serving)
  BY <1>1, Zenon DEF Installing, Serving
<1>3. \A b : Batch(b)' = Batch(b)
  BY Zenon DEF Batch
<1>4. (Pending(n)' <=> Pending(n)) /\ (Handled(n)' <=> Handled(n))
      /\ (Finished(n)' <=> Finished(n))
  BY <1>1, <1>2, <1>3, Zenon DEF Pending, Handled, Finished
<1>5. /\ Readable(n)' <=> Readable(n)
      /\ Entered(n)' <=> Entered(n)
      /\ Dark(n)' <=> Dark(n)
      /\ Stale(n)' <=> Stale(n)
      /\ Agrees(n)' <=> Agrees(n)
      /\ Shown(n)' <=> Shown(n)
      /\ Present(n)' <=> Present(n)
      /\ Unpolled' <=> Unpolled
  BY DataKept, Zenon
<1>6. (Installable(n)' <=> Installable(n)) /\ (Converged(n) => Converged(n)')
  BY ConvergedKept, Zenon
<1>7. Read(n)' /\ Unseen(n)'
  BY <1>1, <1>2, <1>5, Zenon DEF TaskOK, Read, Unseen
<1>8. n \in DOMAIN config => Progress(n)'
  BY <1>1, <1>2, <1>4, <1>5, <1>6, Zenon DEF TaskOK, Progress
<1>9. QED
  BY <1>7, <1>8

\* A step of a reload that writes nothing.
LEMMA ReloadStep ==
  ASSUME IInv, StartInv, Reloading, pc' \in {"prefetch", "disable"},
         UNCHANGED <<config, scheds, tasks, ret, batch, polled, notice, s, schedule,
                     quiet, disturbed, settled>>,
         \A n \in Names : notice = "none" => snapshot'[n].pk = 0 /\ fresh'[n] = NoEntry,
         pc' = "disable" => \A n \in todo' : snapshot'[n].pk # 0,
         \A n \in Names \ disturbed : Reload(n)'
  PROVE  StartInv'
<1>1. HistoryOK' /\ SchedulesOK' /\ AbsentPlain'
  BY TablesKept
<1>2. NothingYet'
  BY Zenon DEF StartInv, NothingYet, Blank, Present
<1>3. Reloading' /\ ~Looping /\ ~Looping' /\ pc' \notin {"down", "crashed", "save", "task"}
      /\ pc \notin {"poll", "update", "ready"} /\ pc' \notin {"poll", "update", "ready"}
  BY DEF Reloading, Looping
<1>4. InHand'
  <2>1. pc' # "save" /\ pc' # "task"
    BY <1>3
  <2>2. QED
    BY <1>3, <2>1, Zenon DEF InHand
<1>5. LoopsOver'
  <2>1. \A b : Batch(b)' = Batch(b)
    BY Zenon DEF Batch
  <2>2. \A n : Handled(n)' <=> Handled(n)
    BY <1>3, <2>1, Zenon DEF Handled, Installing
  <2>3. QED
    BY <1>3, <2>2, Zenon DEF StartInv, LoopsOver
<1>6. ASSUME NEW n \in Names \ disturbed' PROVE TaskOK(n)'
  <2>1. TaskOK(n) /\ Reload(n)'
    BY <1>6, Zenon DEF StartInv
  <2>2. Read(n)' /\ Unseen(n)' /\ (n \in DOMAIN config => Progress(n)')
    BY <1>3, <2>1, ReloadKept, Zenon
  <2>3. QED
    BY <2>1, <2>2, Zenon DEF TaskOK
<1>7. QED
  BY <1>1, <1>2, <1>4, <1>5, <1>6, Zenon DEF StartInv

LEMMA QueryStart == ASSUME IInv, StartInv, QueryTasks PROVE StartInv'
<1>1. UNCHANGED <<config, scheds, tasks, ret, batch, polled, notice, s, schedule, fresh,
                  quiet, disturbed, settled>>
      /\ pc = "query" /\ pc' = "prefetch"
      /\ snapshot' = [n \in Names |-> IF tasks[n].enabled THEN tasks[n] ELSE NoRow]
  BY DEF QueryTasks, dbVars, entryVars, history
<1>2. ASSUME NEW n \in Names, notice = "none" PROVE snapshot'[n].pk = 0 /\ fresh'[n] = NoEntry
  <2>1. tasks[n].pk = 0 /\ fresh[n] = NoEntry
    BY <1>2, Zenon DEF StartInv, NothingYet, Blank, Present
  <2>2. NoRow.pk = 0
    BY DEF NoRow
  <2>3. snapshot'[n] = tasks[n] \/ snapshot'[n] = NoRow
    BY <1>1, Zenon
  <2>4. QED
    BY <1>1, <2>1, <2>2, <2>3, Zenon
<1>3. ASSUME NEW n \in Names PROVE Reload(n)'
  <2>1. Copied(n)'
    BY <1>1, Zenon DEF Copied
  <2>2. pc' # "disable"
    BY <1>1
  <2>3. QED
    BY <2>1, <2>2, Zenon DEF Reload
<1>4. Reloading /\ pc' \in {"prefetch", "disable"} /\ pc' # "disable"
  BY <1>1 DEF Reloading
<1>5. QED
  BY <1>1, <1>2, <1>3, <1>4, ReloadStep, Zenon

\* The entries that are made are those of the rows, for a task that nobody
\* has touched since it was queried.
LEMMA PrefetchStart == ASSUME IInv, StartInv, Prefetch PROVE StartInv'
<1>1. UNCHANGED <<config, scheds, tasks, ret, batch, polled, notice, s, schedule, snapshot,
                  quiet, disturbed, settled>>
      /\ pc = "prefetch" /\ pc' = "disable" /\ todo' = {n \in Queried : ~snapshot[n].parses}
      /\ fresh' = [n \in Names |->
                     IF n \notin Queried THEN NoEntry
                     ELSE [enabled |-> snapshot[n].parses, sched |-> Meaning(snapshot[n])]]
  BY DEF Prefetch, dbVars, entryVars, history
<1>2. ASSUME NEW n \in Names, notice = "none" PROVE snapshot'[n].pk = 0 /\ fresh'[n] = NoEntry
  <2>1. snapshot[n].pk = 0
    BY <1>2, Zenon DEF StartInv, NothingYet, Blank
  <2>2. n \notin Queried
    BY <2>1, Zenon DEF Queried
  <2>3. QED
    BY <1>1, <2>1, <2>2, Zenon
<1>3. \A n \in todo' : snapshot'[n].pk # 0
  BY <1>1, Zenon DEF Queried
<1>4. ASSUME NEW n \in Names \ disturbed PROVE Reload(n)'
  <2>1. Copied(n) /\ AbsentPlain
    BY <1>1, <1>4, Zenon DEF StartInv, TaskOK, Reload
  <2>2. tasks[n] \in Row
    BY DEF IInv, TypeOK
  <2>3. tasks[n].enabled \in BOOLEAN /\ tasks[n].parses \in BOOLEAN
    BY <2>2, Zenon DEF Row
  <2>4. NoRow.enabled = FALSE /\ NoRow.pk = 0
    BY Zenon DEF NoRow
  <2>5. CASE tasks[n].enabled
    <3>1. snapshot[n] = tasks[n] /\ tasks[n].pk # 0
      BY <2>1, <2>4, <2>5, Zenon DEF Copied, AbsentPlain, Present
    <3>2. n \in Queried
      BY <3>1, Zenon DEF Queried
    <3>3. fresh'[n] = [enabled |-> tasks[n].parses, sched |-> Meaning(tasks[n])]
      BY <1>1, <3>1, <3>2, Zenon
    <3>4. fresh'[n].enabled = tasks[n].parses /\ fresh'[n].sched = Meaning(tasks[n])
      BY <3>3
    <3>5. Meaning(tasks[n])' = Meaning(tasks[n])
      BY <1>1, Zenon DEF Meaning
    <3>6. CASE tasks[n].parses
      <4>1. Made(n)'
        BY <1>1, <2>3, <2>5, <3>4, <3>5, <3>6, Zenon DEF Made
      <4>2. n \notin todo'
        BY <1>1, <3>1, <3>6, Zenon
      <4>3. pc' # "prefetch"
        BY <1>1
      <4>4. QED
        BY <4>1, <4>2, <4>3, Zenon DEF Reload
    <3>7. CASE ~tasks[n].parses
      <4>1. Unreadable(n)'
        BY <1>1, <2>5, <3>1, <3>4, <3>7, Zenon DEF Unreadable
      <4>2. n \in todo'
        BY <1>1, <3>1, <3>2, <3>7, Zenon
      <4>3. pc' # "prefetch"
        BY <1>1
      <4>4. QED
        BY <4>1, <4>2, <4>3, Zenon DEF Reload
    <3>8. QED
      BY <3>6, <3>7
  <2>6. CASE ~tasks[n].enabled
    <3>1. n \notin Queried
      <4>1. snapshot[n] = NoRow
        BY <2>1, <2>6, Zenon DEF Copied
      <4>2. snapshot[n].pk = 0
        BY <2>4, <4>1, Zenon
      <4>3. QED
        BY <4>2, Zenon DEF Queried
    <3>2. fresh'[n] = NoEntry /\ n \notin todo'
      BY <1>1, <3>1, Zenon
    <3>3. NoEntry.enabled = FALSE
      BY Zenon DEF NoEntry
    <3>4. Made(n)'
      BY <1>1, <2>3, <2>6, <3>2, <3>3, Zenon DEF Made
    <3>5. pc' # "prefetch"
      BY <1>1
    <3>6. QED
      BY <3>2, <3>4, <3>5, Zenon DEF Reload
  <2>7. QED
    BY <2>5, <2>6
<1>5. Reloading /\ pc' \in {"prefetch", "disable"}
  BY <1>1 DEF Reloading
<1>6. QED
  BY <1>1, <1>2, <1>3, <1>4, <1>5, ReloadStep, Zenon

\* An entry that is installed is scheduled as it asks.
LEMMA InstalledMeaning ==
  ASSUME NEW n, config[n].kind \in Kinds, Installed(n)
  PROVE  Meaning(tasks[n]) = Wanted(n)
<1>1. PICK id \in Ids : scheds[id] = Wanted(n) /\ tasks[n] = Unpack(n, tasks[n], id)
  BY Zenon DEF Installed
<1>2. Scheduler(Unpack(n, tasks[n], id)) = id
  BY <1>1, SchedulerOfUnpack
<1>3. Scheduler(tasks[n]) = id
  BY <1>1, <1>2
<1>4. QED
  BY <1>1, <1>3, Zenon DEF Meaning

LEMMA WantedKind == ASSUME NEW n, Wanted(n) \in Schedule PROVE config[n].kind \in Kinds
BY DEF Wanted, Schedule

\* A task that is disabled was not readable, so that nothing had been settled
\* and no entry been installed, unless a client has touched it.
LEMMA DisableStart ==
  ASSUME IInv, StartInv, NEW n \in Names, Disable(n) PROVE StartInv'
<1>1. n \in todo /\ pc = "disable"
      /\ UNCHANGED <<scheds, notice, config, quiet, disturbed, settled>>
  BY DEF Disable, history
<1>2. CASE ~(tasks[n].pk \in {0, snapshot[n].pk} /\ RefsExist(snapshot[n]))
  <2>1. Crash /\ UNCHANGED <<dbVars, config, history>>
    BY <1>2 DEF Disable, dbVars
  <2>2. QED
    BY <2>1, ForgetStart DEF Crash
<1>3. CASE tasks[n].pk \in {0, snapshot[n].pk} /\ RefsExist(snapshot[n])
  <2> DEFINE row == [snapshot[n] EXCEPT !.enabled = FALSE]
  <2>1. tasks' = [tasks EXCEPT ![n] = row] /\ todo' = todo \ {n}
        /\ UNCHANGED <<pc, ret, snapshot, fresh, polled, batch, s, schedule>>
    BY <1>3 DEF Disable, loadVars, entryVars
  <2>2. tasks \in [Names -> Row] /\ snapshot[n] \in Row
    BY DEF IInv, TypeOK
  <2>3. row.pk = snapshot[n].pk /\ row.enabled = FALSE
    BY <2>2 DEF Row
  <2>4. snapshot[n].pk # 0
    BY <1>1, Zenon DEF StartInv, LoopsOver
  <2> HIDE DEF row
  <2>5. tasks'[n] = row /\ \A m \in Names \ {n} : tasks'[m] = tasks[m]
    BY <2>1, <2>2, Zenon
  <2>6. ASSUME n \notin disturbed
        PROVE  ~Installing /\ ~Serving /\ settled = <<>>
    <3>1. TaskOK(n)
      BY <2>6, Zenon DEF StartInv
    <3>2. ~Readable(n)
      BY <1>1, <3>1, Zenon DEF TaskOK, Reload, Unreadable, Readable
    <3>3. QED
      BY <3>1, <3>2, Zenon DEF TaskOK, Read
  <2>7. HistoryOK'
    <3>1. settled # <<>> => n \notin disturbed
      BY Zenon DEF StartInv, HistoryOK
    <3>2. settled = <<>>
      BY <2>6, <3>1, Zenon
    <3>3. QED
      BY <1>1, <3>2, Zenon DEF StartInv, HistoryOK
  <2>8. SchedulesOK' /\ AbsentPlain'
    <3>1. SchedulesOK'
      BY <1>1, Zenon DEF StartInv, SchedulesOK
    <3>2. AbsentPlain'
      BY <2>3, <2>4, <2>5, Zenon DEF StartInv, AbsentPlain, Present
    <3>3. QED
      BY <3>1, <3>2
  <2>9. NothingYet'
    <3>1. notice # "none"
      BY <2>4, Zenon DEF StartInv, NothingYet, Blank
    <3>2. QED
      BY <1>1, <3>1, Zenon DEF NothingYet
  <2>10. Reloading /\ Reloading' /\ ~Looping /\ ~Looping'
         /\ pc' \notin {"down", "crashed", "save", "task", "prefetch"}
    BY <1>1, <2>1 DEF Reloading, Looping
  <2>11. InHand'
    <3>1. pc' # "save" /\ pc' # "task"
      BY <2>10
    <3>2. QED
      BY <2>10, <3>1, Zenon DEF InHand
  <2>12. LoopsOver'
    <3>1. \A b : Batch(b)' = Batch(b)
      BY <1>1, Zenon DEF Batch
    <3>2. \A m : Handled(m)' <=> Handled(m)
      BY <2>1, <2>10, <3>1, Zenon DEF Handled, Installing, Reloading
    <3>3. QED
      BY <2>1, <2>10, <3>2, Zenon DEF StartInv, LoopsOver
  <2>13. ASSUME NEW m \in Names \ disturbed' PROVE TaskOK(m)'
    <3>1. TaskOK(m)
      BY <1>1, <2>13, Zenon DEF StartInv
    <3>2. CASE m # n
      <4>1. tasks'[m] = tasks[m] /\ (m \in todo' <=> m \in todo)
        BY <2>1, <2>5, <3>2, Zenon
      <4>2. Meaning(tasks[m])' = Meaning(tasks[m])
        BY <1>1, <4>1, Zenon DEF Meaning
      <4>3. (Unreadable(m)' <=> Unreadable(m)) /\ (Made(m)' <=> Made(m))
        BY <2>1, <4>1, <4>2, MemoryKept, Zenon
      <4>4. Reload(m)'
        BY <1>1, <2>1, <2>10, <3>1, <4>1, <4>3, Zenon DEF TaskOK, Reload
      <4>5. Read(m)' /\ Unseen(m)' /\ (m \in DOMAIN config => Progress(m)')
        BY <1>1, <2>1, <2>10, <3>1, <4>1, ReloadKept, Zenon
      <4>6. QED
        BY <1>1, <4>4, <4>5, Zenon DEF TaskOK
    <3>3. CASE m = n
      <4>1. ~Installing' /\ ~Serving' /\ settled' = <<>>
        BY <1>1, <2>1, <2>6, <2>13, <3>3, Zenon DEF Installing, Serving, Looping, Reloading
      <4>2. fresh[n].enabled \in BOOLEAN /\ Unreadable(n)
        <5>1. fresh[n] \in Entries
          BY DEF IInv, TypeOK
        <5>2. fresh[n].enabled \in BOOLEAN
          BY <5>1, Zenon DEF Entries
        <5>3. QED
          BY <1>1, <3>1, <3>3, <5>2, Zenon DEF TaskOK, Reload
      <4>3. Made(n)'
        BY <2>1, <2>3, <2>5, <4>2, Zenon DEF Made, Unreadable
      <4>4. n \notin todo'
        BY <2>1, Zenon
      <4>5. Read(n)' /\ Reload(n)' /\ Unseen(n)' /\ Progress(n)'
        BY <2>10, <4>1, <4>3, <4>4, Zenon DEF Read, Reload, Unseen, Progress, Pending,
           Handled, Finished
      <4>6. QED
        BY <3>3, <4>5, Zenon DEF TaskOK
    <3>4. QED
      BY <3>2, <3>3
  <2>14. QED
    BY <2>7, <2>8, <2>9, <2>11, <2>12, <2>13, Zenon DEF StartInv
<1>4. QED
  BY <1>2, <1>3

\* What a reload shows of a task that nobody has touched.
LEMMA LoadedShows ==
  ASSUME IInv, AbsentPlain, NEW n \in Names, Made(n), UNCHANGED <<config, scheds, tasks>>,
         schedule'[n] = fresh[n]
  PROVE  /\ Readable(n)' /\ Agrees(n)' /\ ~Stale(n)'
         /\ ~Present(n) => Dark(n)'
         /\ Installable(n) /\ Converged(n) => Shown(n)'
<1>1. Readable(n)'
  BY Zenon DEF Made, Readable
<1>2. Agrees(n)'
  BY Zenon DEF Made, Agrees
<1>3. ~Stale(n)'
  BY <1>2, Zenon DEF Agrees, Stale
<1>4. ~Present(n) => Dark(n)'
  <2>1. NoRow.enabled = FALSE
    BY DEF NoRow
  <2>2. QED
    BY <1>2, <2>1, Zenon DEF AbsentPlain, Agrees, Dark
<1>5. Installable(n) /\ Converged(n) => Shown(n)'
  <2> SUFFICES ASSUME Installable(n), Converged(n), schedule'[n].enabled
               PROVE  schedule'[n].sched = Wanted(n)'
    BY <1>2, Zenon DEF Shown
  <2>1. Installed(n) /\ Wanted(n) \in Schedule
    BY Zenon DEF Converged, Installable
  <2>2. Meaning(tasks[n]) = Wanted(n)
    BY <2>1, InstalledMeaning, WantedKind, Zenon
  <2>3. tasks[n].enabled
    BY <1>2, Zenon DEF Agrees
  <2>4. schedule'[n].sched = Meaning(tasks[n])
    BY <2>3, Zenon DEF Made
  <2>5. Wanted(n)' = Wanted(n)
    BY Zenon DEF Wanted
  <2>6. QED
    BY <2>2, <2>4, <2>5, Zenon
<1>6. QED
  BY <1>1, <1>2, <1>3, <1>4, <1>5

\* Every entry is in one of the two batches.
LEMMA TwoBatches ==
  \A n : /\ ~(n \in Batch(1) /\ n \in Batch(2))
         /\ n \in DOMAIN config => n \in Batch(1) \/ n \in Batch(2)
<1>1. ~(2 = 1) /\ 1 = 1
  OBVIOUS
<1>2. \A n : n \in Batch(1) <=> n \in DOMAIN config /\ config[n].default
  BY <1>1, Zenon DEF Batch
<1>3. \A n : n \in Batch(2) <=> n \in DOMAIN config /\ ~config[n].default
  BY <1>1, Zenon DEF Batch
<1>4. QED
  BY <1>2, <1>3, Zenon

\* Where a batch begins, its entries are all still to be installed.
LEMMA BeginPhases ==
  ASSUME NEW b \in {1, 2}, BeginBatch(b), config' = config
  PROVE  /\ Installing' /\ ~Serving' /\ ~Reloading' /\ batch' = b
         /\ pc' \in {"get", "poll"} /\ (Looping' => todo' = Batch(b)')
         /\ \A n : ~Handled(n)'
         /\ \A n : Finished(n)' <=> b = 2 /\ n \in Batch(1)
         /\ \A n \in Batch(b) : Pending(n)'
<1>1. batch' = b /\ todo' = Batch(b) /\ pc' = (IF Batch(b) = {} THEN "poll" ELSE "get")
  BY DEF BeginBatch
<1>2. \A c : Batch(c)' = Batch(c)
  BY Zenon DEF Batch
<1>3. pc' \in {"get", "poll"} /\ (pc' = "get" \/ Batch(b) = {})
  BY <1>1
<1>4. Installing' /\ ~Serving' /\ ~Reloading' /\ (Looping' <=> pc' = "get")
  BY <1>3 DEF Installing, Serving, Reloading, Looping
<1>5. \A n : ~Handled(n)'
  BY <1>1, <1>2, <1>3, <1>4, Zenon DEF Handled
<1>6. \A n : Finished(n)' <=> b = 2 /\ n \in Batch(1)
  BY <1>1, <1>2, <1>4, Zenon DEF Finished
<1>7. \A n \in Batch(b) : Pending(n)'
  BY <1>1, <1>2, <1>3, <1>4, Zenon DEF Pending
<1>8. QED
  BY <1>1, <1>2, <1>3, <1>4, <1>5, <1>6, <1>7, Zenon

LEMMA LoadedStart == ASSUME IInv, StartInv, Loaded PROVE StartInv'
<1>1. UNCHANGED <<config, scheds, tasks, notice, ret, polled, quiet, disturbed, settled>>
      /\ pc = "disable" /\ todo = {} /\ schedule' = fresh /\ snapshot' = NoRows
      /\ fresh' = NoEntries
  BY DEF Loaded, dbVars, history
<1>2. HistoryOK' /\ SchedulesOK' /\ AbsentPlain'
  BY <1>1, TablesKept
<1>3. Reloading /\ ~Looping
  BY <1>1 DEF Reloading, Looping
<1>4. \A n \in Names : snapshot'[n].pk = 0 /\ fresh'[n] = NoEntry
  BY <1>1 DEF NoRows, NoRow, NoEntries
<1>5. ret \in {"setup", "update", "ready"}
  BY DEF IInv, TypeOK
<1>6. \A b : Batch(b)' = Batch(b)
  BY <1>1, Zenon DEF Batch
<1>7. \A n \in Names \ disturbed : TaskOK(n) /\ Made(n)
  BY <1>1, Zenon DEF StartInv, TaskOK, Reload
<1>8. \A n \in Names \ disturbed :
        /\ Readable(n)' /\ Agrees(n)' /\ ~Stale(n)'
        /\ ~Present(n) => Dark(n)'
        /\ Installable(n) /\ Converged(n) => Shown(n)'
  BY <1>1, <1>7, LoadedShows, Zenon DEF StartInv
<1>9. \A n : /\ Installable(n)' <=> Installable(n)
             /\ Converged(n) => Converged(n)'
             /\ Present(n)' <=> Present(n)
             /\ Unpolled' <=> Unpolled
  <2>1. SUFFICES ASSUME NEW n
                 PROVE  /\ Installable(n)' <=> Installable(n)
                        /\ Converged(n) => Converged(n)'
                        /\ Present(n)' <=> Present(n)
                        /\ Unpolled' <=> Unpolled
    OBVIOUS
  <2>2. (Installable(n)' <=> Installable(n)) /\ (Converged(n) => Converged(n)')
    BY <1>1, ConvergedKept, Zenon
  <2>3. (Present(n)' <=> Present(n)) /\ (Unpolled' <=> Unpolled)
    BY <1>1, Zenon DEF Present, Unpolled
  <2>4. QED
    BY <2>2, <2>3
<1>10. \A n \in Names : s'[n] # NoEntry => s'[n] = s[n] /\ ret # "setup"
  <2>1. CASE ret = "setup"
    <3>1. s' = NoEntries
      BY <2>1 DEF Loaded, BeginBatch
    <3>2. QED
      BY <3>1 DEF NoEntries
  <2>2. CASE ret # "setup"
    <3>1. s' = s
      BY <2>2, Zenon DEF Loaded
    <3>2. QED
      BY <2>2, <3>1, Zenon
  <2>3. QED
    BY <2>1, <2>2
<1>11. NothingYet'
  BY <1>1, <1>4, <1>9, <1>10, Zenon DEF StartInv, NothingYet, Blank, Present
<1>12. CASE ret = "setup"
  <2>1. BeginBatch(1)
    BY <1>12 DEF Loaded
  <2>2. /\ Installing' /\ ~Serving' /\ ~Reloading' /\ batch' = 1
        /\ pc' \in {"get", "poll"} /\ (Looping' => todo' = Batch(1)')
        /\ \A n : ~Handled(n)'
        /\ \A n : ~Finished(n)'
    <3>1. 1 \in {1, 2} /\ ~(1 = 2)
      OBVIOUS
    <3>2. QED
      BY <1>1, <2>1, <3>1, BeginPhases, Zenon
  <2>3. pc' \notin {"down", "crashed", "save", "task", "disable", "prefetch"}
        /\ (pc' = "poll" \/ Looping')
    BY <2>2 DEF Looping
  <2>4. LoopsOver' /\ InHand'
    <3>1. InHand'
      BY <2>3, Zenon DEF InHand
    <3>2. LoopsOver'
      BY <1>10, <1>12, <2>2, <2>3, Zenon DEF LoopsOver
    <3>3. QED
      BY <3>1, <3>2
  <2>5. ASSUME NEW n \in Names \ disturbed' PROVE TaskOK(n)'
    <3>1. Read(n)' /\ Reload(n)'
      BY <1>1, <1>8, <2>3, <2>5, Zenon DEF Read, Reload
    <3>2. Unseen(n)'
      <4>1. ~(batch' = 2)
        BY <2>2
      <4>2. QED
        BY <2>3, <4>1, Zenon DEF Unseen
    <3>3. n \in DOMAIN config => Progress(n)'
      BY <1>1, <1>7, <1>8, <1>9, <2>2, <2>5, Zenon DEF TaskOK, Progress
    <3>4. QED
      BY <1>1, <3>1, <3>2, <3>3, Zenon DEF TaskOK
  <2>6. QED
    BY <1>2, <1>11, <2>4, <2>5, Zenon DEF StartInv
<1>13. CASE ret # "setup"
  <2>1. pc' = ret /\ UNCHANGED <<batch, s, todo>>
    BY <1>13, Zenon DEF Loaded
  <2>2. pc' \in {"update", "ready"} /\ ~Looping' /\ ~Reloading'
    BY <1>5, <1>13, <2>1 DEF Looping, Reloading
  <2>3. (Installing' <=> Installing) /\ (Serving' <=> Serving) /\ (Installing <=> pc' = "update")
        /\ (Serving <=> pc' = "ready")
    BY <1>1, <1>3, <1>5, <1>13, <2>1, <2>2 DEF Installing, Serving, Reloading, Looping
  <2>4. \A n : /\ Pending(n)' <=> Pending(n)
               /\ Handled(n)' <=> Handled(n)
               /\ Finished(n)' <=> Finished(n)
    BY <1>3, <1>6, <2>1, <2>2, <2>3, Zenon DEF Pending, Handled, Finished
  <2>5. pc' \notin {"down", "crashed", "save", "task", "disable", "prefetch"}
    BY <2>2
  <2>6. LoopsOver' /\ InHand'
    <3>1. InHand'
      BY <2>5, Zenon DEF InHand
    <3>2. LoopsOver'
      BY <2>1, <2>2, <2>4, <2>5, Zenon DEF StartInv, LoopsOver
    <3>3. QED
      BY <3>1, <3>2
  <2>7. ASSUME NEW n \in Names \ disturbed' PROVE TaskOK(n)'
    <3>1. TaskOK(n) /\ n \in Names \ disturbed
      BY <1>1, <1>7, <2>7, Zenon
    <3>2. Read(n)' /\ Reload(n)'
      BY <1>8, <2>5, <3>1, Zenon DEF Read, Reload
    <3>3. Unseen(n)'
      <4>1. pc # "poll"
        BY <1>1
      <4>2. Unpolled /\ Installing => ~Present(n) /\ s[n] = NoEntry
        BY <1>3, <3>1, <4>1, Zenon DEF TaskOK, Unseen
      <4>3. QED
        BY <1>8, <1>9, <2>1, <2>3, <3>1, <4>2, Zenon DEF Unseen
    <3>4. n \in DOMAIN config => Progress(n)'
      <4>1. Handled(n) /\ Installable(n) /\ n \in DOMAIN config => Entered(n)'
        <5>1. Entered(n)' <=> Entered(n)
          <6>1. Wanted(n)' = Wanted(n)
            BY <1>1, Zenon DEF Wanted
          <6>2. QED
            BY <1>1, <2>1, <6>1, Zenon DEF Entered
        <5>2. QED
          BY <3>1, <5>1, Zenon DEF TaskOK, Progress
      <4>2. Handled(n) \/ Finished(n) \/ settled # <<>> =>
              (n \in DOMAIN config => Converged(n) /\ Converged(n)')
        BY <1>9, <3>1, Zenon DEF TaskOK, Progress
      <4>3. QED
        BY <1>1, <1>8, <1>9, <2>4, <3>1, <4>1, <4>2, Zenon DEF Progress
    <3>5. QED
      BY <1>1, <3>2, <3>3, <3>4, Zenon DEF TaskOK
  <2>8. QED
    BY <1>2, <1>11, <2>6, <2>7, Zenon DEF StartInv
<1>14. QED
  BY <1>12, <1>13

-----------------------------------------------------------------------------
(* The loop over a batch.                                                  *)

\* A step of the loop goes on with what is left.
LEMMA LoopPhases ==
  ASSUME StartInv, Looping, pc' \in {"get", "save", "task", "poll"},
         UNCHANGED <<config, batch>>, todo' \subseteq todo, pc' = "poll" => todo' = {}
  PROVE  /\ Installing /\ Installing' /\ ~Serving /\ ~Serving' /\ ~Reloading /\ ~Reloading'
         /\ pc' \notin {"down", "crashed", "prefetch", "disable", "update"}
         /\ (Looping' \/ pc' = "poll")
         /\ todo \subseteq Batch(batch)
         /\ Looping' => todo' \subseteq Batch(batch)'
         /\ \A n : Handled(n) => Handled(n)'
         /\ \A n : (n \in todo => n \in todo') =>
              /\ Pending(n)' <=> Pending(n)
              /\ Handled(n)' <=> Handled(n)
              /\ Finished(n)' <=> Finished(n)
         /\ \A n \in todo : /\ Pending(n) /\ ~Handled(n) /\ ~Finished(n)
                            /\ ~Finished(n)'
                            /\ n \notin todo' => Handled(n)' /\ ~Pending(n)'
<1>1. /\ Installing /\ Installing' /\ ~Serving /\ ~Serving' /\ ~Reloading /\ ~Reloading'
      /\ pc' \notin {"down", "crashed", "prefetch", "disable", "update"}
      /\ (Looping' \/ pc' = "poll")
  BY DEF Installing, Looping, Serving, Reloading
<1>2. \A b : Batch(b)' = Batch(b)
  BY Zenon DEF Batch
<1>3. todo \subseteq Batch(batch)
  BY Zenon DEF StartInv, LoopsOver
<1>4. \A n : n \in Batch(batch) => ~(batch = 1 /\ n \in Batch(2)) /\ ~(batch = 2 /\ n \in Batch(1))
  BY TwoBatches, Zenon
<1>5. \A n : Handled(n) => Handled(n)'
  BY <1>1, <1>2, Zenon DEF Handled
<1>6. \A n : (n \in todo => n \in todo') =>
              /\ Pending(n)' <=> Pending(n)
              /\ Handled(n)' <=> Handled(n)
              /\ Finished(n)' <=> Finished(n)
  <2> SUFFICES ASSUME NEW n, n \in todo => n \in todo'
               PROVE  /\ Pending(n)' <=> Pending(n)
                      /\ Handled(n)' <=> Handled(n)
                      /\ Finished(n)' <=> Finished(n)
    OBVIOUS
  <2>1. n \in todo' <=> n \in todo
    BY Zenon
  <2>2. ~Looping' => n \notin todo
    BY <1>1, <2>1, Zenon
  <2>3. Batch(batch)' = Batch(batch) /\ Batch(1)' = Batch(1) /\ Batch(2)' = Batch(2)
    BY <1>2, Zenon
  <2>4. (Pending(n)' <=> Pending(n)) /\ (Handled(n)' <=> Handled(n))
    BY <1>1, <2>1, <2>2, <2>3, Zenon DEF Pending, Handled
  <2>5. Finished(n)' <=> Finished(n)
    BY <1>1, <2>3, Zenon DEF Finished
  <2>6. QED
    BY <2>4, <2>5
<1>7. ASSUME NEW n \in todo
      PROVE  /\ Pending(n) /\ ~Handled(n) /\ ~Finished(n)
             /\ ~Finished(n)'
             /\ n \notin todo' => Handled(n)' /\ ~Pending(n)'
  <2>1. n \in Batch(batch) /\ ~(batch = 1 /\ n \in Batch(2)) /\ ~(batch = 2 /\ n \in Batch(1))
    BY <1>3, <1>4, <1>7, Zenon
  <2>2. Batch(batch)' = Batch(batch) /\ Batch(1)' = Batch(1) /\ Batch(2)' = Batch(2)
    BY <1>2, Zenon
  <2>3. QED
    BY <1>1, <1>7, <2>1, <2>2, Zenon DEF Pending, Handled, Finished
<1>8. Looping' => todo' \subseteq Batch(batch)'
  <2>1. Batch(batch)' = Batch(batch)
    BY <1>2, Zenon
  <2>2. QED
    BY <1>3, <2>1, Zenon
<1>9. QED
  BY <1>1, <1>3, <1>5, <1>6, <1>7, <1>8, Zenon

\* A step of the loop, as an entry sees it that is not taken off the list.
LEMMA LoopKept ==
  ASSUME StartInv, Looping, pc' \in {"get", "save", "task", "poll"},
         UNCHANGED <<config, batch, polled, schedule, settled>>,
         todo' \subseteq todo, pc' = "poll" => todo' = {}, notice' \in {notice, "new"},
         NEW n, TaskOK(n), n \in todo => n \in todo',
         tasks'[n] = tasks[n], s'[n] = s[n],
         n \in DOMAIN config =>
           \A id \in Ids : scheds[id] = Wanted(n) => scheds'[id] = Wanted(n)
  PROVE  TaskOK(n)'
<1>1. /\ Installing /\ Installing' /\ ~Serving /\ ~Serving' /\ ~Reloading /\ ~Reloading'
      /\ pc' \notin {"down", "crashed", "prefetch", "disable", "update"}
      /\ (Looping' \/ pc' = "poll")
      /\ Pending(n)' <=> Pending(n)
      /\ Handled(n)' <=> Handled(n)
      /\ Finished(n)' <=> Finished(n)
  BY LoopPhases, Zenon
<1>2. /\ Readable(n)' <=> Readable(n)
      /\ Entered(n)' <=> Entered(n)
      /\ Dark(n)' <=> Dark(n)
      /\ Stale(n)' <=> Stale(n)
      /\ Agrees(n)' <=> Agrees(n)
      /\ Shown(n)' <=> Shown(n)
      /\ Unpolled' <=> Unpolled
  BY DataKept, Zenon
<1>3. n \in DOMAIN config =>
        (Installable(n)' <=> Installable(n)) /\ (Converged(n) => Converged(n)')
  BY ConvergedKept, Zenon
<1>4. Read(n)' /\ Reload(n)'
  BY <1>1, <1>2, Zenon DEF TaskOK, Read, Reload
<1>5. Unseen(n)'
  BY <1>1, <1>2, Zenon DEF TaskOK, Unseen
<1>6. n \in DOMAIN config => Progress(n)'
  <2>1. pc' # "update"
    BY <1>1
  <2>2. QED
    BY <1>1, <1>2, <1>3, <2>1, Zenon DEF TaskOK, Progress
<1>7. QED
  BY <1>4, <1>5, <1>6, Zenon DEF TaskOK

\* An entry that is taken off the list.
LEMMA EntryDone ==
  ASSUME StartInv, Looping, pc' \in {"get", "poll"},
         UNCHANGED <<config, batch, polled, schedule, settled>>,
         todo' \subseteq todo, pc' = "poll" => todo' = {},
         NEW n \in todo, n \notin todo', TaskOK(n),
         Converged(n)', Readable(n)',
         Installable(n)' => Entered(n)' /\ (Stale(n)' => ~Unpolled' /\ notice' = "new")
  PROVE  TaskOK(n)'
<1>1. /\ Installing /\ Installing' /\ ~Serving /\ ~Serving' /\ ~Reloading /\ ~Reloading'
      /\ pc' \notin {"down", "crashed", "prefetch", "disable", "update"}
      /\ (Looping' \/ pc' = "poll")
      /\ ~Finished(n)' /\ Handled(n)' /\ ~Pending(n)'
  BY LoopPhases, Zenon
<1>2. Read(n)' /\ Reload(n)'
  BY <1>1, Zenon DEF Read, Reload
<1>3. Unseen(n)'
  <2>1. (Dark(n)' <=> Dark(n)) /\ (Unpolled' <=> Unpolled)
    BY Zenon DEF Dark, Unpolled
  <2>2. QED
    BY <1>1, <2>1, Zenon DEF TaskOK, Unseen
<1>4. Progress(n)'
  <2>1. pc' # "update"
    BY <1>1
  <2>2. QED
    BY <1>1, <2>1, Zenon DEF Progress
<1>5. QED
  BY <1>2, <1>3, <1>4, Zenon DEF TaskOK

\* What NextEntry does to the loop.
LEMMA NextEntryLoop ==
  ASSUME NEW n \in todo, NextEntry(n)
  PROVE  /\ pc' \in {"get", "poll"} /\ todo' \subseteq todo
         /\ (pc' = "poll" => todo' = {}) /\ n \notin todo'
         /\ \A m : m # n => (m \in todo => m \in todo')
<1>1. todo' = todo \ {n} /\ pc' = (IF todo' = {} THEN "poll" ELSE "get")
  BY Zenon DEF NextEntry
<1>2. QED
  BY <1>1

\* A step of the loop keeps what is said of the loops.
LEMMA LoopsKept ==
  ASSUME StartInv, Looping, pc' \in {"get", "save", "task", "poll"},
         UNCHANGED <<config, batch>>, todo' \subseteq todo, pc' = "poll" => todo' = {},
         pc' \in {"save", "task"} => cur' \in todo',
         \A n \in Names : s'[n] # NoEntry => s'[n] = s[n] \/ (n \in todo /\ n \notin todo')
  PROVE  LoopsOver'
<1>1. /\ pc' \notin {"down", "crashed", "prefetch", "disable", "update"}
      /\ Looping' => todo' \subseteq Batch(batch)'
      /\ \A n : Handled(n) => Handled(n)'
      /\ \A n \in todo : n \notin todo' => Handled(n)'
  BY LoopPhases, Zenon
<1>2. \A n \in Names : s'[n] # NoEntry => Handled(n)'
  BY <1>1, Zenon DEF StartInv, LoopsOver
<1>3. pc' # "disable"
  BY <1>1
<1>4. QED
  BY <1>1, <1>2, <1>3, Zenon DEF LoopsOver

LEMMA GetScheduleStart ==
  ASSUME IInv, StartInv, NEW n \in Names, GetSchedule(n) PROVE StartInv'
<1>1. UNCHANGED <<scheds, tasks, notice, config, ret, snapshot, fresh, polled, batch, s,
                  schedule, quiet, disturbed, settled>>
      /\ pc = "get" /\ n \in todo
  BY DEF GetSchedule, dbVars, loadVars, history
<1>2. n \in DOMAIN config /\ Looping
  BY <1>1 DEF IInv, LoopsDefined, Looping
<1>3. HistoryOK' /\ SchedulesOK' /\ AbsentPlain'
  BY <1>1, TablesKept
<1>4. NothingYet'
  BY <1>1, Zenon DEF StartInv, NothingYet, Blank, Present
<1>5. Wanted(n)' = Wanted(n) /\ Matching(Wanted(n))' = Matching(Wanted(n))
  BY <1>1, Zenon DEF Wanted, Matching
<1>6. CASE Wanted(n) \in Schedule /\ FromSchedule(Wanted(n)) # {}
  <2>1. cur' = n /\ found' \in FromSchedule(Wanted(n)) /\ pc' = "save" /\ todo' = todo
    BY <1>6 DEF GetSchedule
  <2>2. \/ found' \in Ids /\ scheds[found'] = Wanted(n)
        \/ found' = NoId /\ Matching(Wanted(n)) = {} /\ CleanSchedule(Wanted(n))
    BY <2>1 DEF FromSchedule, Matching
  <2>3. CleanSchedule(Wanted(n))
    BY <1>6, <2>2, Zenon DEF StartInv, SchedulesOK
  <2>4. InHand'
    <3>1. NoId \notin Ids
      BY DEF Ids, NoId
    <3>2. Wanted(cur)' = Wanted(n) /\ Matching(Wanted(cur))' = Matching(Wanted(n))
      BY <1>1, <1>5, <2>1, Zenon DEF Wanted, Matching
    <3>3. pc' # "task"
      BY <2>1
    <3>4. QED
      BY <1>1, <2>1, <2>2, <2>3, <3>1, <3>2, <3>3, Zenon DEF InHand
  <2>5. LoopsOver'
    BY <1>1, <1>2, <2>1, LoopsKept
  <2>6. ASSUME NEW m \in Names \ disturbed' PROVE TaskOK(m)'
    <3>1. TaskOK(m)
      BY <1>1, <2>6, Zenon DEF StartInv
    <3>2. pc' \in {"get", "save", "task", "poll"} /\ pc' # "poll"
          /\ todo' \subseteq todo /\ notice' \in {notice, "new"}
      BY <1>1, <2>1
    <3>3. QED
      BY <1>1, <1>2, <2>1, <3>1, <3>2, LoopKept, Zenon
  <2>7. QED
    BY <1>3, <1>4, <2>4, <2>5, <2>6, Zenon DEF StartInv
<1>7. CASE ~(Wanted(n) \in Schedule /\ FromSchedule(Wanted(n)) # {})
  <2>1. NextEntry(n)
    BY <1>7 DEF GetSchedule, EntryFails
  <2>2. /\ pc' \in {"get", "poll"} /\ todo' \subseteq todo
        /\ (pc' = "poll" => todo' = {}) /\ n \notin todo'
        /\ \A m : m # n => (m \in todo => m \in todo')
    BY <1>1, <2>1, NextEntryLoop
  <2>3. pc' \in {"get", "save", "task", "poll"} /\ pc' # "save" /\ pc' # "task"
    BY <2>2
  <2>4. InHand' /\ LoopsOver'
    <3>1. InHand'
      BY <2>3, Zenon DEF InHand
    <3>2. LoopsOver'
      BY <1>1, <1>2, <2>2, <2>3, LoopsKept, Zenon
    <3>3. QED
      BY <3>1, <3>2
  <2>5. ~(Wanted(n) \in Schedule /\ CleanSchedule(Wanted(n)))
    BY <1>7 DEF FromSchedule
  <2>6. Converged(n)' /\ ~Installable(n)'
    BY <1>5, <2>5, Zenon DEF Converged, Installable
  <2>7. ASSUME NEW m \in Names \ disturbed' PROVE TaskOK(m)'
    <3>1. TaskOK(m)
      BY <1>1, <2>7, Zenon DEF StartInv
    <3>2. CASE m = n
      <4>1. Readable(n)'
        <5>1. Readable(n)
          BY <1>2, <3>1, <3>2, Zenon DEF TaskOK, Read, Installing
        <5>2. QED
          BY <1>1, <5>1, Zenon DEF Readable
      <4>2. QED
        BY <1>1, <1>2, <2>2, <2>6, <3>1, <3>2, <4>1, EntryDone, Zenon
    <3>3. CASE m # n
      BY <1>1, <1>2, <2>2, <2>3, <3>1, <3>3, LoopKept, Zenon
    <3>4. QED
      BY <3>2, <3>3
  <2>8. QED
    BY <1>3, <1>4, <2>4, <2>7, Zenon DEF StartInv
<1>8. QED
  BY <1>6, <1>7

\* A schedule is overwritten only if a client has edited it in between, and
\* what is settled has all the schedules that it needs.
LEMMA SaveScheduleStart == ASSUME IInv, StartInv, SaveSchedule PROVE StartInv'
<1> DEFINE id == IF found = NoId THEN nextId ELSE found
<1>1. UNCHANGED <<tasks, config, ret, snapshot, fresh, polled, batch, s, schedule, quiet,
                  disturbed, settled>>
      /\ pc = "save" /\ id <= MaxId
  BY DEF SaveSchedule, loadVars, history
<1>2. Looping /\ cur \in todo /\ cur \in DOMAIN config /\ Wanted(cur) \in Schedule
      /\ CleanSchedule(Wanted(cur))
  BY <1>1 DEF Looping, IInv, LoopsDefined, StartInv, LoopsOver, InHand
<1>3. scheds \in [Ids -> Schedule \cup {NoSchedule}] /\ config \in Configs
  BY Zenon DEF IInv, TypeOK
<1>4. id \in Ids
  <2>1. nextId \in Nat \ {0} /\ found \in Ids \cup {NoId}
    BY DEF IInv, TypeOK
  <2>2. QED
    BY <1>1, <2>1, BoundsAssumption DEF Ids, NoId
<1>5. found = NoId => scheds[id] = NoSchedule
  BY <1>4 DEF IInv, KeysFresh, Ids
<1>6. found # NoId => id = found
  OBVIOUS
<1>7. ASSUME cur \notin disturbed
      PROVE  IF found = NoId THEN Matching(Wanted(cur)) = {} ELSE scheds[id] = Wanted(cur)
  BY <1>1, <1>6, <1>7, Zenon DEF StartInv, InHand
<1>8. AbsentPlain'
  BY <1>1, Zenon DEF StartInv, AbsentPlain, Present
<1>9. CASE UniqueSolar(id, Wanted(cur))
  <2>1. scheds' = [scheds EXCEPT ![id] = Wanted(cur)] /\ notice' = "new" /\ found' = id
        /\ pc' = "task" /\ UNCHANGED <<cur, todo>>
    BY <1>9 DEF SaveSchedule
  <2> HIDE DEF id
  <2>2. scheds'[id] = Wanted(cur) /\ \A j \in Ids \ {id} : scheds'[j] = scheds[j]
    BY <1>3, <1>4, <2>1, Zenon
  <2>3. SchedulesOK'
    BY <1>2, <1>3, <1>4, <1>9, <2>1, SchedulesKept, Zenon DEF StartInv
  <2>4. NothingYet'
    <3>1. notice' # "none"
      BY <2>1
    <3>2. QED
      BY <3>1, Zenon DEF NothingYet
  <2>5. HistoryOK'
    <3>1. ASSUME settled # <<>> PROVE Contents' = Contents
      <4>1. cur \notin disturbed /\ cur \in Names
        BY <1>2, <1>3, <3>1, WantedApart, Zenon DEF StartInv, HistoryOK
      <4>2. Converged(cur)
        BY <1>2, <3>1, <4>1, Zenon DEF StartInv, TaskOK, Progress
      <4>3. Matching(Wanted(cur)) # {}
        BY <1>2, <4>2, Zenon DEF Converged
      <4>4. scheds[id] = Wanted(cur)
        BY <1>7, <4>1, <4>3, Zenon
      <4>5. scheds' = scheds
        BY <1>3, <1>4, <2>1, <4>4
      <4>6. QED
        BY <1>1, <4>5, ContentsKept
    <3>2. QED
      BY <1>1, <3>1, Zenon DEF StartInv, HistoryOK
  <2>6. InHand'
    <3>1. NoId \notin Ids
      BY DEF Ids, NoId
    <3>2. Wanted(cur)' = Wanted(cur)
      BY <1>1, <2>1, Zenon DEF Wanted
    <3>3. pc' # "save"
      BY <2>1
    <3>4. QED
      BY <1>2, <1>4, <2>1, <2>2, <3>1, <3>2, <3>3, Zenon DEF InHand
  <2>7. LoopsOver'
    <3>1. pc' \in {"get", "save", "task", "poll"} /\ pc' # "poll" /\ todo' \subseteq todo
          /\ cur' \in todo'
      BY <1>2, <2>1
    <3>2. QED
      BY <1>1, <1>2, <3>1, LoopsKept, Zenon
  <2>8. ASSUME NEW m \in Names \ disturbed' PROVE TaskOK(m)'
    <3>1. TaskOK(m) /\ m \in Names /\ m \notin disturbed
      BY <1>1, <2>8, Zenon DEF StartInv
    <3>2. ASSUME m \in DOMAIN config, scheds[id] = Wanted(m) PROVE scheds'[id] = Wanted(m)
      <4>1. found # NoId
        BY <1>3, <1>5, <3>2, WantedApart, Zenon
      <4>2. m \in Concerned(found, scheds[found])
        BY <1>6, <3>1, <3>2, <4>1, Zenon DEF Concerned, Wanted
      <4>3. scheds[found] = Wanted(cur)
        BY <1>1, <3>1, <4>1, <4>2, Zenon DEF StartInv, InHand
      <4>4. QED
        BY <1>6, <2>2, <3>2, <4>1, <4>3, Zenon
    <3>3. m \in DOMAIN config => \A j \in Ids : scheds[j] = Wanted(m) => scheds'[j] = Wanted(m)
      BY <2>2, <3>2, Zenon
    <3>4. pc' \in {"get", "save", "task", "poll"} /\ pc' # "poll"
          /\ todo' \subseteq todo /\ notice' \in {notice, "new"}
      BY <2>1
    <3>5. QED
      BY <1>1, <1>2, <2>1, <3>1, <3>3, <3>4, LoopKept, Zenon
  <2>9. QED
    BY <1>8, <2>3, <2>4, <2>5, <2>6, <2>7, <2>8, Zenon DEF StartInv
<1>10. CASE ~UniqueSolar(id, Wanted(cur))
  <2>1. NextEntry(cur) /\ UNCHANGED <<scheds, notice>>
    BY <1>10 DEF SaveSchedule, EntryFails
  <2> HIDE DEF id
  <2>2. cur \in disturbed
    <3> SUFFICES ASSUME cur \notin disturbed PROVE FALSE
      OBVIOUS
    <3>1. PICK j \in Ids \ {id} : scheds[j] = Wanted(cur) /\ Wanted(cur).kind = "solar"
      BY <1>10, Zenon DEF UniqueSolar
    <3>2. Matching(Wanted(cur)) # {}
      BY <3>1, Zenon DEF Matching
    <3>3. scheds[id] = Wanted(cur)
      BY <1>7, <3>2, Zenon
    <3>4. QED
      BY <1>4, <3>1, <3>3, Zenon DEF StartInv, SchedulesOK
  <2>3. HistoryOK' /\ SchedulesOK'
    BY <1>1, <2>1, TablesKept
  <2>4. NothingYet'
    BY <1>1, <2>1, Zenon DEF StartInv, NothingYet, Blank, Present
  <2>5. /\ pc' \in {"get", "poll"} /\ todo' \subseteq todo
        /\ (pc' = "poll" => todo' = {}) /\ cur \notin todo'
        /\ \A m : m # cur => (m \in todo => m \in todo')
    BY <1>2, <2>1, NextEntryLoop
  <2>6. pc' \in {"get", "save", "task", "poll"} /\ pc' # "save" /\ pc' # "task"
    BY <2>5
  <2>7. InHand' /\ LoopsOver'
    <3>1. InHand'
      BY <2>6, Zenon DEF InHand
    <3>2. LoopsOver'
      BY <1>1, <1>2, <2>5, <2>6, LoopsKept, Zenon
    <3>3. QED
      BY <3>1, <3>2
  <2>8. ASSUME NEW m \in Names \ disturbed' PROVE TaskOK(m)'
    <3>1. TaskOK(m) /\ m # cur
      BY <1>1, <2>2, <2>8, Zenon DEF StartInv
    <3>2. QED
      BY <1>1, <1>2, <2>1, <2>5, <2>6, <3>1, LoopKept, Zenon
  <2>9. QED
    BY <1>8, <2>3, <2>4, <2>7, <2>8, Zenon DEF StartInv
<1>11. QED
  BY <1>9, <1>10

\* What update_or_create() has before it, for an entry that no client has
\* touched: the row it makes is valid if and only if the entry can be
\* installed, and its schedule is the one that is wanted.
LEMMA RowInHand ==
  ASSUME IInv, StartInv, pc = "task", NEW n \in DOMAIN config, n = cur, n \notin disturbed
  PROVE  /\ found \in Ids /\ scheds[found] = Wanted(n)
         /\ RefsExist(Unpacked(n))
         /\ Valid(Unpacked(n)) <=> Installable(n)
<1>1. n \in Names /\ config[n] \in Entry /\ Wanted(n) \in Schedule /\ CleanSchedule(Wanted(n))
      /\ config[n].kind \in Kinds
  <2>1. Wanted(n) \in Schedule
    BY DEF IInv, LoopsDefined
  <2>2. CleanSchedule(Wanted(n))
    BY Zenon DEF StartInv, InHand
  <2>3. QED
    BY <2>1, <2>2, EntryType, WantedKind DEF IInv, TypeOK
<1>2. found \in Ids /\ scheds[found] = Wanted(n)
  <2>1. found # NoId /\ scheds[found] = Wanted(n)
    BY Zenon DEF StartInv, InHand
  <2>2. QED
    BY <2>1 DEF IInv, TypeOK
<1> DEFINE old == IF Present(n) THEN tasks[n] ELSE NewRow
<1>3. Unpacked(n) = Unpack(n, old, found)
  BY Zenon DEF Unpacked
<1>4. RefsExist(Unpacked(n))
  <2>1. Unpacked(n).refs = Only(config[n].kind, found)
    <3>1. Unpack(n, old, found).refs = Only(config[n].kind, found)
      BY Zenon DEF Unpack
    <3>2. QED
      BY <1>3, <3>1
  <2>2. \A k \in Kinds : Unpacked(n).refs[k] = IF k = config[n].kind THEN found ELSE NoId
    BY <2>1 DEF Only
  <2>3. scheds[found].kind = config[n].kind
    BY <1>2 DEF Wanted
  <2>4. QED
    BY <2>2, <2>3, Zenon DEF RefsExist
<1>5. old.one_off = tasks[n].one_off /\ old.expires = tasks[n].expires
  <2>1. CASE Present(n)
    BY <2>1, Zenon
  <2>2. CASE ~Present(n)
    <3>1. tasks[n] = NoRow
      BY <1>1, <2>2, Zenon DEF StartInv, AbsentPlain
    <3>2. NewRow.one_off = FALSE /\ NoRow.one_off = FALSE /\ NewRow.expires = FALSE
          /\ NoRow.expires = FALSE
      BY Zenon DEF NewRow, NoRow
    <3>3. QED
      BY <2>2, <3>1, <3>2, Zenon
  <2>3. QED
    BY <2>1, <2>2
<1> HIDE DEF old
<1>6. Valid(Unpack(n, old, found)) <=> Valid(Unpack(n, tasks[n], 1))
  <2>1. found \in Ids \cup {1} /\ 1 \in Ids \cup {1}
    BY <1>2
  <2>2. Valid(Unpack(n, old, found))
          <=> /\ ~(Given(config[n].expires, old.expires) /\ config[n].expire_seconds)
              /\ config[n].kind = "clocked" => Given(config[n].one_off, old.one_off)
    BY <1>1, <2>1, UnpackValid, Zenon
  <2>3. Valid(Unpack(n, tasks[n], 1))
          <=> /\ ~(Given(config[n].expires, tasks[n].expires) /\ config[n].expire_seconds)
              /\ config[n].kind = "clocked" => Given(config[n].one_off, tasks[n].one_off)
    BY <1>1, <2>1, UnpackValid, Zenon
  <2>4. QED
    BY <1>5, <2>2, <2>3, Zenon
<1>7. QED
  BY <1>1, <1>2, <1>3, <1>4, <1>6, Zenon DEF Installable

\* Of a row whose entry is installed, only the references are written, and
\* they say the same.
LEMMA InstalledAgain ==
  ASSUME IInv, NEW n \in Names, Installed(n), NEW id \in Ids, scheds[id] = Wanted(n),
         Wanted(n) \in Schedule, UNCHANGED <<config, scheds>>,
         tasks' = [tasks EXCEPT ![n] = Unpack(n, tasks[n], id)]
  PROVE  Contents' = Contents
<1> DEFINE row == Unpack(n, tasks[n], id)
<1>1. PICK old \in Ids : scheds[old] = Wanted(n) /\ tasks[n] = Unpack(n, tasks[n], old)
  BY Zenon DEF Installed
<1>2. tasks \in [Names -> Row]
  BY DEF IInv, TypeOK
<1>3. tasks'[n] = row /\ \A m \in Names \ {n} : tasks'[m] = tasks[m]
  BY <1>2, Zenon
<1>4. [row EXCEPT !.refs = <<>>] = [tasks[n] EXCEPT !.refs = <<>>]
  <2> DEFINE c == config[n]
             pk == tasks[n].pk
             enabled == Given(c.enabled, tasks[n].enabled)
             one_off == Given(c.one_off, tasks[n].one_off)
             expires == Given(c.expires, tasks[n].expires)
             expire_seconds == c.expire_seconds
             parses == TRUE
             Bare(refs) == [pk |-> pk, refs |-> refs, enabled |-> enabled,
                            one_off |-> one_off, expires |-> expires,
                            expire_seconds |-> expire_seconds, parses |-> parses]
  <2>1. row = Bare(Only(c.kind, id)) /\ tasks[n] = Bare(Only(c.kind, old))
    <3>1. row = Bare(Only(c.kind, id))
      BY Zenon DEF Unpack
    <3>2. Unpack(n, tasks[n], old) = Bare(Only(c.kind, old))
      BY Zenon DEF Unpack
    <3> HIDE DEF row, Bare
    <3>3. QED
      BY <1>1, <3>1, <3>2
  <2> HIDE DEF row, pk, c, enabled, one_off, expires, expire_seconds, parses
  <2>2. \A refs : [Bare(refs) EXCEPT !.refs = <<>>] = Bare(<<>>)
    OBVIOUS
  <2> HIDE DEF Bare
  <2>3. QED
    BY <2>1, <2>2
<1>5. row.pk = tasks[n].pk
  BY Zenon DEF Unpack
<1>6. Meaning(row) = Wanted(n) /\ Meaning(tasks[n]) = Wanted(n)
  <2>1. Scheduler(row) = id
    BY SchedulerOfUnpack, WantedKind
  <2>2. QED
    BY <2>1, InstalledMeaning, WantedKind, Zenon DEF Meaning
<1> HIDE DEF row
<1>7. ASSUME NEW m \in Names
      PROVE  /\ [tasks'[m] EXCEPT !.refs = <<>>] = [tasks[m] EXCEPT !.refs = <<>>]
             /\ (IF Present(m)' THEN Meaning(tasks[m])' ELSE NoSchedule)
                  = (IF Present(m) THEN Meaning(tasks[m]) ELSE NoSchedule)
  <2>1. CASE m = n
    <3>1. Present(m)' <=> Present(m)
      BY <1>3, <1>5, <2>1, Zenon DEF Present
    <3>2. Meaning(tasks[m])' = Meaning(tasks[m])
      BY <1>3, <1>6, <2>1, Zenon DEF Meaning
    <3>3. QED
      BY <1>3, <1>4, <2>1, <3>1, <3>2, Zenon
  <2>2. CASE m # n
    <3>1. tasks'[m] = tasks[m]
      BY <1>3, <2>2, Zenon
    <3>2. (Present(m)' <=> Present(m)) /\ Meaning(tasks[m])' = Meaning(tasks[m])
      BY <3>1, Zenon DEF Present, Meaning
    <3>3. QED
      BY <3>1, <3>2, Zenon
  <2>3. QED
    BY <2>1, <2>2
<1> DEFINE Content(m) == <<[tasks[m] EXCEPT !.refs = <<>>],
                          IF Present(m) THEN Meaning(tasks[m]) ELSE NoSchedule>>
<1>8. \A m \in Names : Content(m)' = Content(m)
  BY <1>7, Zenon
<1>9. Contents = [config |-> config, scheds |-> scheds, tasks |-> [m \in Names |-> Content(m)]]
      /\ Contents' = [config |-> config', scheds |-> scheds',
                      tasks |-> [m \in Names |-> Content(m)']]
  BY Zenon DEF Contents
<1> HIDE DEF Content
<1>10. [m \in Names |-> Content(m)'] = [m \in Names |-> Content(m)]
  BY <1>8, Zenon
<1>11. QED
  BY <1>9, <1>10, Zenon

LEMMA UpdateOrCreateStart == ASSUME IInv, StartInv, UpdateOrCreate PROVE StartInv'
<1>1. UNCHANGED <<scheds, config, ret, snapshot, fresh, polled, batch, schedule, quiet,
                  disturbed, settled>>
      /\ pc = "task" /\ NextEntry(cur)
  BY DEF UpdateOrCreate, loadVars, history, EntryFails
<1>2. cur \in DOMAIN config /\ cur \in Names /\ cur \in todo /\ Looping /\ config \in Configs
  BY <1>1, ConfigsAssumption DEF IInv, TypeOK, LoopsDefined, StartInv, LoopsOver, Looping
<1>3. PICK n \in DOMAIN config : n = cur
  BY <1>2
<1>4. n \in Names /\ n \in todo
  BY <1>2, <1>3
<1>5. /\ pc' \in {"get", "poll"} /\ todo' \subseteq todo
      /\ (pc' = "poll" => todo' = {}) /\ n \notin todo'
      /\ \A m : m # n => (m \in todo => m \in todo')
  BY <1>1, <1>3, <1>4, NextEntryLoop
<1>6. pc' \in {"get", "save", "task", "poll"} /\ pc' # "save" /\ pc' # "task"
  BY <1>5
<1>7. SchedulesOK' /\ InHand'
  BY <1>1, <1>6, Zenon DEF StartInv, SchedulesOK, InHand
<1>8. tasks \in [Names -> Row] /\ nextPk # 0 /\ s \in [Names -> Entries]
  BY DEF IInv, TypeOK
<1> DEFINE row == Unpacked(n)
<1>9. row.pk # 0
  <2>1. row.pk = (IF Present(n) THEN tasks[n] ELSE NewRow).pk
    BY Zenon DEF Unpacked, Unpack
  <2>2. NewRow.pk = nextPk
    BY Zenon DEF NewRow
  <2>3. QED
    BY <1>8, <2>1, <2>2, Zenon DEF Present
<1>10. row = Unpack(n, IF Present(n) THEN tasks[n] ELSE NewRow, found)
  BY Zenon DEF Unpacked
<1>11. row.enabled = Given(config[n].enabled,
                           (IF Present(n) THEN tasks[n] ELSE NewRow).enabled)
       /\ row.parses = TRUE
  BY Zenon DEF Unpacked, Unpack
<1>12. \A m \in Names : m # n => tasks'[m] = tasks[m] /\ s'[m] = s[m]
  <2>1. \/ tasks' = [tasks EXCEPT ![n] = row]
           /\ (s' = s \/ s' = [s EXCEPT ![n] = [enabled |-> TRUE, sched |-> Wanted(n)]])
        \/ tasks' = tasks /\ s' = s
    BY <1>3, Zenon DEF UpdateOrCreate
  <2>2. QED
    BY <1>4, <1>8, <2>1, Zenon
<1>13. ASSUME NEW m \in Names \ disturbed', m # n PROVE TaskOK(m)'
  <2>1. TaskOK(m) /\ tasks'[m] = tasks[m] /\ s'[m] = s[m] /\ (m \in todo => m \in todo')
    BY <1>1, <1>5, <1>12, <1>13, Zenon DEF StartInv
  <2>2. notice' \in {notice, "new"}
    BY Zenon DEF UpdateOrCreate
  <2>3. QED
    BY <1>1, <1>2, <1>5, <1>6, <2>1, <2>2, LoopKept, Zenon
<1>14. ASSUME n \notin disturbed
       PROVE  /\ found \in Ids /\ scheds[found] = Wanted(n)
              /\ RefsExist(row)
              /\ Valid(row) <=> Installable(n)
              /\ TaskOK(n) /\ Agrees(n) /\ s[n] = NoEntry
  <2>1. TaskOK(n) /\ Pending(n) /\ ~Handled(n)
    <3>1. \A m \in todo : Pending(m) /\ ~Handled(m)
      BY <1>1, <1>2, <1>5, <1>6, LoopPhases, Zenon
    <3>2. QED
      BY <1>4, <1>14, <3>1, Zenon DEF StartInv
  <2>2. Agrees(n) /\ s[n] = NoEntry
    BY <1>3, <1>4, <2>1, Zenon DEF TaskOK, Progress, StartInv, LoopsOver
  <2>3. QED
    BY <1>1, <1>3, <1>14, <2>1, <2>2, RowInHand, Zenon
<1> HIDE DEF row
<1>15. CASE Valid(row) /\ RefsExist(row)
  <2>1. tasks' = [tasks EXCEPT ![n] = row] /\ notice' = "new"
        /\ s' = (IF row.enabled
                 THEN [s EXCEPT ![n] = [enabled |-> TRUE, sched |-> Wanted(n)]]
                 ELSE s)
    BY <1>3, <1>15, Zenon DEF UpdateOrCreate, row
  <2>2. tasks'[n] = row
    BY <1>4, <1>8, <2>1, Zenon
  <2>3. AbsentPlain'
    BY <1>9, <1>12, <2>2, Zenon DEF StartInv, AbsentPlain, Present
  <2>4. NothingYet'
    <3>1. notice' # "none"
      BY <2>1
    <3>2. QED
      BY <3>1, Zenon DEF NothingYet
  <2>5. LoopsOver'
    BY <1>1, <1>2, <1>4, <1>5, <1>6, <1>12, LoopsKept, Zenon
  <2>6. HistoryOK'
    <3>1. ASSUME settled # <<>> PROVE Contents' = Contents
      <4>1. n \notin disturbed
        BY <3>1, Zenon DEF StartInv, HistoryOK
      <4>2. Installable(n) /\ Converged(n)
        BY <1>14, <1>15, <3>1, <4>1, Zenon DEF TaskOK, Progress
      <4>3. Installed(n) /\ Present(n) /\ Wanted(n) \in Schedule
        BY <4>2, Zenon DEF Converged, Installed, Installable
      <4>4. tasks' = [tasks EXCEPT ![n] = Unpack(n, tasks[n], found)]
        BY <1>10, <2>1, <4>3, Zenon
      <4>5. QED
        BY <1>1, <1>4, <1>14, <4>1, <4>3, <4>4, InstalledAgain, Zenon
    <3>2. QED
      BY <1>1, <3>1, Zenon DEF StartInv, HistoryOK
  <2>7. ASSUME n \notin disturbed PROVE TaskOK(n)'
    <3>1. Wanted(n)' = Wanted(n)
      BY <1>1, Zenon DEF Wanted
    <3>2. Converged(n)'
      <4>1. Matching(Wanted(n))' # {}
        BY <1>1, <1>14, <2>7, <3>1, Zenon DEF Matching
      <4>2. row = Unpack(n, row, found)
        BY <1>10, UnpackTwice
      <4>3. PICK id \in Ids : id = found
        BY <1>14, <2>7
      <4>4. Unpack(n, tasks[n], id)' = Unpack(n, row, id)
        BY <1>1, <2>2, Zenon DEF Unpack
      <4>5. Installed(n)'
        BY <1>1, <1>9, <1>14, <2>2, <2>7, <3>1, <4>2, <4>3, <4>4, Zenon
        DEF Installed, Present
      <4>6. QED
        BY <4>1, <4>5, Zenon DEF Converged
    <3>3. Readable(n)'
      BY <1>11, <2>2, Zenon DEF Readable, row
    <3>4. Entered(n)'
      <4>1. CASE row.enabled
        <5>1. s'[n] = [enabled |-> TRUE, sched |-> Wanted(n)]
          BY <1>4, <1>8, <2>1, <4>1, Zenon
        <5>2. QED
          BY <2>2, <3>1, <4>1, <5>1, Zenon DEF Entered
      <4>2. CASE ~row.enabled
        BY <1>14, <2>1, <2>2, <2>7, <4>2, Zenon DEF Entered
      <4>3. QED
        BY <4>1, <4>2
    <3>5. ASSUME Stale(n)' PROVE ~Unpolled'
      <4>1. ~row.enabled /\ schedule[n].enabled
        BY <1>1, <2>2, <3>5, Zenon DEF Stale
      <4>2. tasks[n].enabled
        BY <1>14, <2>7, <4>1, Zenon DEF Agrees
      <4>3. Present(n)
        <5>1. NoRow.enabled = FALSE
          BY DEF NoRow
        <5>2. QED
          BY <1>4, <4>2, <5>1, Zenon DEF StartInv, AbsentPlain
      <4>4. config[n].enabled # "unset"
        BY <1>11, <4>1, <4>2, <4>3, Zenon DEF Given, row
      <4>5. ~config[n].default
        BY <1>2, <4>4, ConfigsAssumption, Zenon
      <4>6. n \notin Batch(1)
        <5>1. 1 = 1
          OBVIOUS
        <5>2. QED
          BY <4>5, <5>1, Zenon DEF Batch
      <4>7. batch = 2
        <5>1. n \in Batch(batch)
          BY <1>2, <1>4, Zenon DEF StartInv, LoopsOver
        <5>2. batch \in {1, 2}
          BY DEF IInv, TypeOK
        <5>3. QED
          BY <4>6, <5>1, <5>2
      <4>8. Unpolled => Dark(n)
        BY <1>2, <1>14, <2>7, <4>7, Zenon DEF TaskOK, Unseen, Installing
      <4>9. ~Unpolled
        BY <4>1, <4>8, Zenon DEF Dark
      <4>10. QED
        BY <1>1, <4>9, Zenon DEF Unpolled
    <3>6. QED
      BY <1>1, <1>2, <1>4, <1>5, <1>14, <2>1, <2>7, <3>2, <3>3, <3>4, <3>5, EntryDone, Zenon
  <2>8. \A m \in Names \ disturbed' : TaskOK(m)'
    BY <1>1, <1>13, <2>7, Zenon
  <2>9. QED
    BY <1>7, <2>3, <2>4, <2>5, <2>6, <2>8, Zenon DEF StartInv
<1>16. CASE ~(Valid(row) /\ RefsExist(row))
  <2>1. UNCHANGED <<tasks, notice, s>>
    BY <1>3, <1>16, Zenon DEF UpdateOrCreate, row
  <2>2. HistoryOK' /\ AbsentPlain'
    BY <1>1, <2>1, TablesKept
  <2>3. NothingYet'
    BY <1>1, <2>1, Zenon DEF StartInv, NothingYet, Blank, Present
  <2>4. LoopsOver'
    BY <1>1, <1>2, <1>4, <1>5, <1>6, <2>1, LoopsKept, Zenon
  <2>5. ASSUME n \notin disturbed PROVE TaskOK(n)'
    <3>1. ~Installable(n) /\ Matching(Wanted(n)) # {}
      BY <1>14, <1>16, <2>5, Zenon DEF Matching
    <3>2. Converged(n) /\ ~Installable(n)'
      BY <1>1, <2>1, <3>1, ConvergedKept, Zenon DEF Converged
    <3>3. Converged(n)'
      BY <1>1, <2>1, <3>2, ConvergedKept, Zenon
    <3>4. Readable(n)'
      <4>1. Readable(n)
        BY <1>2, <1>14, <2>5, Zenon DEF TaskOK, Read, Installing
      <4>2. QED
        BY <2>1, <4>1, Zenon DEF Readable
    <3>5. QED
      BY <1>1, <1>2, <1>4, <1>5, <1>14, <2>5, <3>2, <3>3, <3>4, EntryDone, Zenon
  <2>6. \A m \in Names \ disturbed' : TaskOK(m)'
    BY <1>1, <1>13, <2>5, Zenon
  <2>7. QED
    BY <1>7, <2>2, <2>3, <2>4, <2>6, Zenon DEF StartInv
<1>17. QED
  BY <1>15, <1>16

-----------------------------------------------------------------------------
(* The poll, and the end of a batch.                                       *)

\* What is still shown of a task that was disabled, the poll finds: the
\* notice that says so is new.
LEMMA AccessStart ==
  ASSUME IInv, StartInv, NEW forced \in BOOLEAN, Access(forced) PROVE StartInv'
<1>1. UNCHANGED <<scheds, tasks, config, todo, snapshot, fresh, batch, cur, found, s,
                  schedule, quiet, disturbed, settled>>
      /\ pc \in {"poll", "ready"}
  BY DEF Access, entryVars, history
<1>2. /\ pc' \in {"query", "update", "ready"}
      /\ pc = "poll" => pc' = "update" \/ (pc' = "query" /\ ret' = "update")
      /\ pc = "ready" => pc' = "ready" \/ (pc' = "query" /\ ret' = "ready")
      /\ notice' # "none" <=> notice # "none"
      /\ notice # "none" => notice' = "seen" \/ notice' = notice
  BY DEF Access
<1>3. Unpolled' => notice = "none"
  BY Zenon DEF Access, Unpolled
<1>4. ~Unpolled /\ notice = "new" => pc' = "query"
  BY Zenon DEF Access, Unpolled
<1>5. HistoryOK' /\ SchedulesOK' /\ AbsentPlain'
  BY <1>1, TablesKept
<1>6. NothingYet'
  BY <1>1, <1>2, Zenon DEF StartInv, NothingYet, Blank, Present
<1>7. /\ ~Looping /\ ~Looping' /\ ~Reloading /\ pc # "update"
      /\ (Reloading' <=> pc' = "query")
      /\ (Installing <=> pc = "poll") /\ (Installing' <=> Installing)
      /\ (Serving' <=> Serving) /\ (Installing \/ Serving)
      /\ pc' \notin {"down", "crashed", "save", "task", "disable", "prefetch"}
  BY <1>1, <1>2 DEF Looping, Reloading, Installing, Serving
<1>8. \A b : Batch(b)' = Batch(b)
  BY <1>1, Zenon DEF Batch
<1>9. \A n : /\ Pending(n)' <=> Pending(n)
             /\ Handled(n)' <=> Handled(n)
             /\ Finished(n)' <=> Finished(n)
  BY <1>1, <1>7, <1>8, Zenon DEF Pending, Handled, Finished
<1>10. InHand' /\ LoopsOver'
  <2>1. InHand'
    BY <1>7, Zenon DEF InHand
  <2>2. LoopsOver'
    BY <1>1, <1>7, <1>9, Zenon DEF StartInv, LoopsOver
  <2>3. QED
    BY <2>1, <2>2
<1>11. ASSUME NEW n \in Names \ disturbed' PROVE TaskOK(n)'
  <2>1. TaskOK(n)
    BY <1>1, <1>11, Zenon DEF StartInv
  <2>2. /\ Readable(n)' <=> Readable(n)
        /\ Stale(n)' <=> Stale(n)
        /\ Agrees(n)' <=> Agrees(n)
        /\ Present(n)' <=> Present(n)
        /\ Dark(n)' <=> Dark(n)
    BY <1>1, Zenon DEF Readable, Stale, Agrees, Present, Dark
  <2>3. (Entered(n)' <=> Entered(n)) /\ (Shown(n)' <=> Shown(n))
    <3>1. Wanted(n)' = Wanted(n)
      BY <1>1, Zenon DEF Wanted
    <3>2. QED
      BY <1>1, <2>2, <3>1, Zenon DEF Entered, Shown
  <2>4. (Installable(n)' <=> Installable(n)) /\ (Converged(n) => Converged(n)')
    BY <1>1, ConvergedKept, Zenon
  <2>5. Read(n)' /\ Reload(n)'
    BY <1>1, <1>7, <2>1, <2>2, Zenon DEF TaskOK, Read, Reload
  <2>6. Unseen(n)'
    <3>1. ASSUME Unpolled' PROVE ~Present(n) /\ s[n] = NoEntry /\ Dark(n)
      <4>1. Blank(n)
        BY <1>3, <1>11, <3>1, Zenon DEF StartInv, NothingYet
      <4>2. NoEntry.enabled = FALSE
        BY DEF NoEntry
      <4>3. QED
        BY <4>1, <4>2, Zenon DEF Blank, Dark
    <3>2. QED
      BY <1>1, <2>2, <3>1, Zenon DEF Unseen
  <2>7. n \in DOMAIN config => Progress(n)'
    BY <1>1, <1>4, <1>7, <1>9, <2>1, <2>2, <2>3, <2>4, Zenon DEF TaskOK, Progress
  <2>8. QED
    BY <1>1, <2>5, <2>6, <2>7, Zenon DEF TaskOK
<1>12. QED
  BY <1>5, <1>6, <1>10, <1>11, Zenon DEF StartInv

\* What s says of a task takes the place of what a reload has just said.
LEMMA UpdateShows ==
  ASSUME NEW n \in Names, UNCHANGED <<config, tasks>>,
         schedule'[n] = IF s[n] # NoEntry THEN s[n] ELSE schedule[n],
         tasks[n].enabled \in BOOLEAN
  PROVE  /\ s[n] = NoEntry => /\ Agrees(n)' <=> Agrees(n)
                              /\ Shown(n)' <=> Shown(n)
                              /\ Dark(n)' <=> Dark(n)
         /\ Entered(n) /\ ~Stale(n) /\ schedule[n].enabled \in BOOLEAN => Shown(n)'
<1>1. Wanted(n)' = Wanted(n)
  BY Zenon DEF Wanted
<1>2. s[n] = NoEntry => /\ Agrees(n)' <=> Agrees(n)
                        /\ Shown(n)' <=> Shown(n)
                        /\ Dark(n)' <=> Dark(n)
  <2> SUFFICES ASSUME s[n] = NoEntry
               PROVE  /\ Agrees(n)' <=> Agrees(n)
                      /\ Shown(n)' <=> Shown(n)
                      /\ Dark(n)' <=> Dark(n)
    OBVIOUS
  <2>1. schedule'[n] = schedule[n]
    BY Zenon
  <2>2. (Agrees(n)' <=> Agrees(n)) /\ (Dark(n)' <=> Dark(n))
    BY <2>1, Zenon DEF Agrees, Dark
  <2>3. Shown(n)' <=> Shown(n)
    BY <1>1, <2>1, <2>2, Zenon DEF Shown
  <2>4. QED
    BY <2>2, <2>3
<1>3. ASSUME Entered(n), ~Stale(n), schedule[n].enabled \in BOOLEAN PROVE Shown(n)'
  <2>1. CASE tasks[n].enabled
    <3> DEFINE entry == [enabled |-> TRUE, sched |-> Wanted(n)]
    <3>1. s[n] = entry
      BY <1>3, <2>1, Zenon DEF Entered
    <3>2. entry.enabled = TRUE /\ entry.sched = Wanted(n) /\ NoEntry.enabled = FALSE
      BY DEF NoEntry
    <3> HIDE DEF entry
    <3>3. schedule'[n] = entry
      BY <3>1, <3>2, Zenon
    <3>4. QED
      BY <1>1, <2>1, <3>2, <3>3, Zenon DEF Shown, Agrees
  <2>2. CASE ~tasks[n].enabled
    <3>1. s[n] = NoEntry
      BY <1>3, <2>2, Zenon DEF Entered
    <3>2. schedule'[n] = schedule[n]
      BY <3>1, Zenon
    <3>3. ~schedule[n].enabled
      BY <1>3, <2>2, Zenon DEF Stale
    <3>4. QED
      BY <1>1, <1>3, <2>2, <3>2, <3>3, Zenon DEF Shown, Agrees
  <2>3. QED
    BY <2>1, <2>2
<1>4. QED
  BY <1>2, <1>3

LEMMA UpdateScheduleStart == ASSUME IInv, StartInv, UpdateSchedule PROVE StartInv'
<1>1. UNCHANGED <<scheds, tasks, notice, config, ret, snapshot, fresh, polled, cur, found,
                  quiet, disturbed>>
      /\ pc = "update"
      /\ schedule' = [n \in Names |-> IF s[n] # NoEntry THEN s[n] ELSE schedule[n]]
  BY DEF UpdateSchedule, dbVars, loadVars
<1>2. Installing /\ ~Looping /\ ~Reloading /\ ~Serving /\ pc # "poll"
  BY <1>1 DEF Installing, Looping, Reloading, Serving
<1>3. batch \in {1, 2} /\ tasks \in [Names -> Row] /\ schedule \in [Names -> Entries]
  BY DEF IInv, TypeOK
<1>4. s' = NoEntries
  BY DEF UpdateSchedule, BeginBatch
<1>5. \A n \in Names : s'[n] = NoEntry /\ (s[n] = NoEntry => schedule'[n] = schedule[n])
  BY <1>1, <1>4, Zenon DEF NoEntries
<1>6. SchedulesOK' /\ AbsentPlain'
  BY <1>1, Zenon DEF StartInv, SchedulesOK, AbsentPlain, Present
<1>7. NothingYet'
  BY <1>1, <1>5, Zenon DEF StartInv, NothingYet, Blank, Present
<1>8. \A n : /\ Handled(n) <=> n \in Batch(batch)
             /\ Finished(n) <=> batch = 2 /\ n \in Batch(1)
             /\ Pending(n) <=> batch = 1 /\ n \in Batch(2)
             /\ Batch(1)' = Batch(1) /\ Batch(2)' = Batch(2)
  BY <1>1, <1>2, Zenon DEF Handled, Finished, Pending, Batch
<1>9. ASSUME NEW n \in Names \ disturbed
      PROVE  /\ TaskOK(n) /\ Readable(n)'
             /\ Unpolled' => Dark(n)'
             /\ n \in DOMAIN config /\ settled # <<>> => Converged(n)
             /\ n \in DOMAIN config /\ n \notin Batch(batch) =>
                  /\ Agrees(n)' <=> Agrees(n)
                  /\ Shown(n)' <=> Shown(n)
             /\ n \in DOMAIN config /\ n \in Batch(batch) =>
                  /\ Converged(n)
                  /\ Installable(n) => Shown(n)'
             /\ Installable(n)' <=> Installable(n)
             /\ Converged(n) => Converged(n)'
  <2>1. TaskOK(n)
    BY <1>9, Zenon DEF StartInv
  <2>2. Readable(n)'
    BY <1>1, <1>2, <2>1, Zenon DEF TaskOK, Read, Readable
  <2>3. tasks[n].enabled \in BOOLEAN
    BY <1>3, <1>9 DEF Row
  <2>4. schedule[n].enabled \in BOOLEAN
    BY <1>3, <1>9 DEF Entries
  <2>5. schedule'[n] = IF s[n] # NoEntry THEN s[n] ELSE schedule[n]
    BY <1>1, <1>9, Zenon
  <2>6. /\ s[n] = NoEntry => /\ Agrees(n)' <=> Agrees(n)
                             /\ Shown(n)' <=> Shown(n)
                             /\ Dark(n)' <=> Dark(n)
        /\ Entered(n) /\ ~Stale(n) => Shown(n)'
    BY <1>1, <1>9, <2>3, <2>4, <2>5, UpdateShows, Zenon
  <2>7. Unpolled' => Dark(n)'
    <3>1. Unpolled' <=> Unpolled
      BY <1>1, Zenon DEF Unpolled
    <3>2. QED
      BY <1>2, <2>1, <2>6, <3>1, Zenon DEF TaskOK, Unseen
  <2>8. n \in DOMAIN config /\ n \notin Batch(batch) => s[n] = NoEntry
    BY <1>8, <1>9, Zenon DEF StartInv, LoopsOver
  <2>9. n \in DOMAIN config /\ n \in Batch(batch) =>
          /\ Converged(n)
          /\ Installable(n) => Shown(n)'
    BY <1>1, <1>2, <1>8, <2>1, <2>6, Zenon DEF TaskOK, Progress
  <2>10. (Installable(n)' <=> Installable(n)) /\ (Converged(n) => Converged(n)')
    BY <1>1, ConvergedKept, Zenon
  <2>11. n \in DOMAIN config /\ settled # <<>> => Converged(n)
    BY <2>1, Zenon DEF TaskOK, Progress
  <2>12. QED
    BY <2>1, <2>2, <2>6, <2>7, <2>8, <2>9, <2>10, <2>11, Zenon
<1>10. CASE batch = 1
  <2>1. BeginBatch(2) /\ settled' = settled
    BY <1>10 DEF UpdateSchedule
  <2>2. /\ Installing' /\ ~Serving' /\ ~Reloading' /\ batch' = 2
        /\ pc' \in {"get", "poll"} /\ (Looping' => todo' = Batch(2)')
        /\ \A n : ~Handled(n)'
        /\ \A n : Finished(n)' <=> n \in Batch(1)
    <3>1. 2 \in {1, 2}
      OBVIOUS
    <3>2. QED
      BY <1>1, <2>1, <3>1, BeginPhases, Zenon
  <2>3. pc' \notin {"down", "crashed", "save", "task", "disable", "prefetch"}
        /\ (pc' = "poll" \/ Looping')
    BY <2>2 DEF Looping
  <2>4. \A n : Pending(n)' => n \in Batch(2)
    <3>1. ~(batch' = 1)
      BY <2>2
    <3>2. QED
      BY <1>8, <2>2, <3>1, Zenon DEF Pending
  <2>5. HistoryOK'
    BY <1>1, <2>1, ContentsKept, Zenon DEF StartInv, HistoryOK
  <2>6. LoopsOver' /\ InHand'
    <3>1. InHand'
      BY <2>3, Zenon DEF InHand
    <3>2. LoopsOver'
      BY <1>5, <2>2, <2>3, Zenon DEF LoopsOver
    <3>3. QED
      BY <3>1, <3>2
  <2>7. ASSUME NEW n \in Names \ disturbed' PROVE TaskOK(n)'
    <3>1. n \in Names \ disturbed
      BY <1>1, <2>7, Zenon
    <3>2. Read(n)' /\ Reload(n)'
      BY <1>9, <2>3, <3>1, Zenon DEF Read, Reload
    <3>3. Unseen(n)'
      BY <1>9, <2>3, <3>1, Zenon DEF Unseen
    <3>4. n \in DOMAIN config => Progress(n)'
      <4>1. n \in DOMAIN config /\ n \in Batch(2) => n \notin Batch(1)
        BY TwoBatches, Zenon
      <4>2. ASSUME n \in DOMAIN config, Pending(n)' PROVE Agrees(n)'
        <5>1. Pending(n) /\ n \notin Batch(batch)
          BY <1>8, <1>10, <2>4, <4>1, <4>2, Zenon
        <5>2. QED
          BY <1>9, <3>1, <4>2, <5>1, Zenon DEF TaskOK, Progress
      <4>3. ASSUME n \in DOMAIN config, Finished(n)'
            PROVE  Converged(n)' /\ (Installable(n)' => Shown(n)')
        <5>1. n \in Batch(batch)
          BY <1>10, <2>2, <4>3, Zenon
        <5>2. QED
          BY <1>9, <3>1, <4>3, <5>1, Zenon
      <4>4. QED
        BY <1>1, <1>9, <2>1, <2>2, <3>1, <4>2, <4>3, Zenon DEF Progress
    <3>5. QED
      BY <1>1, <3>2, <3>3, <3>4, Zenon DEF TaskOK
  <2>8. QED
    BY <1>6, <1>7, <2>5, <2>6, <2>7, Zenon DEF StartInv
<1>11. CASE batch = 2
  <2>1. /\ pc' = "ready" /\ UNCHANGED <<batch, todo>>
        /\ settled' = IF quiet /\ settled = <<>> THEN <<Contents>> ELSE settled
    BY <1>11 DEF UpdateSchedule
  <2>2. ~Looping' /\ ~Reloading' /\ ~Installing' /\ Serving'
        /\ pc' \notin {"down", "crashed", "save", "task", "disable", "prefetch"}
    BY <2>1 DEF Looping, Reloading, Installing, Serving
  <2>3. HistoryOK'
    <3>1. Contents' = Contents
      BY <1>1, ContentsKept, Zenon
    <3>2. QED
      BY <1>1, <2>1, <3>1, Zenon DEF StartInv, HistoryOK
  <2>4. LoopsOver' /\ InHand'
    <3>1. InHand'
      BY <2>2, Zenon DEF InHand
    <3>2. LoopsOver'
      BY <1>5, <2>2, Zenon DEF LoopsOver
    <3>3. QED
      BY <3>1, <3>2
  <2>5. ASSUME NEW n \in Names \ disturbed' PROVE TaskOK(n)'
    <3>1. n \in Names \ disturbed
      BY <1>1, <2>5, Zenon
    <3>2. Read(n)' /\ Reload(n)'
      BY <1>9, <2>2, <3>1, Zenon DEF Read, Reload
    <3>3. Unseen(n)'
      BY <2>2, Zenon DEF Unseen
    <3>4. ASSUME n \in DOMAIN config PROVE Progress(n)'
      <4>1. CASE n \in Batch(batch)
        BY <1>9, <2>2, <3>1, <3>4, <4>1, Zenon DEF Progress, Handled, Pending
      <4>2. CASE n \notin Batch(batch)
        <5>1. Finished(n)
          BY <1>8, <1>11, <3>4, <4>2, TwoBatches, Zenon
        <5>2. Converged(n) /\ (Installable(n) => Shown(n))
          BY <1>9, <3>1, <3>4, <5>1, Zenon DEF TaskOK, Progress
        <5>3. QED
          BY <1>9, <2>2, <3>1, <3>4, <4>2, <5>2, Zenon DEF Progress, Handled, Pending
      <4>3. QED
        BY <4>1, <4>2
    <3>5. QED
      BY <1>1, <3>2, <3>3, <3>4, Zenon DEF TaskOK
  <2>6. QED
    BY <1>6, <1>7, <2>3, <2>4, <2>5, Zenon DEF StartInv
<1>12. QED
  BY <1>3, <1>10, <1>11

-----------------------------------------------------------------------------
(* StartInv is an invariant.                                               *)

LEMMA StartInv_init == Init => StartInv
<1> SUFFICES ASSUME Init PROVE StartInv
  OBVIOUS
<1>1. /\ scheds = [id \in Ids |-> NoSchedule] /\ tasks = NoRows /\ pc = "down"
      /\ ret = "setup" /\ s = NoEntries /\ schedule = NoEntries
      /\ snapshot = NoRows /\ fresh = NoEntries
      /\ quiet = TRUE /\ disturbed = {} /\ settled = <<>>
  BY DEF Init, NoProcess
<1>2. ~Looping /\ ~Reloading /\ ~Installing /\ ~Serving
  BY <1>1 DEF Looping, Reloading, Installing, Serving
<1>3. \A n \in Names : tasks[n] = NoRow /\ snapshot[n].pk = 0 /\ fresh[n] = NoEntry
                       /\ s[n] = NoEntry /\ schedule[n] = NoEntry /\ ~Present(n)
  BY <1>1 DEF NoRows, NoEntries, NoRow, Present
<1>4. HistoryOK
  BY <1>1, Zenon DEF HistoryOK
<1>5. SchedulesOK
  <2>1. \A id \in Ids : scheds[id] = NoSchedule
    BY <1>1, Zenon
  <2>2. NoSchedule.kind # "solar"
    BY DEF NoSchedule
  <2>3. QED
    BY <2>1, <2>2, NoScheduleApart, Zenon DEF SchedulesOK
<1>6. AbsentPlain /\ NothingYet
  BY <1>3, Zenon DEF AbsentPlain, NothingYet, Blank
<1>7. pc \notin {"save", "task", "prefetch", "disable"}
  BY <1>1
<1>8. LoopsOver /\ InHand
  BY <1>1, <1>2, <1>3, <1>7, Zenon DEF LoopsOver, InHand
<1>9. ASSUME NEW n \in Names PROVE TaskOK(n)
  BY <1>1, <1>2, <1>7, Zenon
  DEF TaskOK, Read, Reload, Unseen, Progress, Pending, Handled, Finished
<1>10. QED
  BY <1>4, <1>5, <1>6, <1>8, <1>9, Zenon DEF StartInv

LEMMA StartInvStutters == ASSUME StartInv, UNCHANGED vars PROVE StartInv'
<1>1. UNCHANGED <<scheds, tasks, notice, config, pc, batch, ret, todo, cur, found, s, schedule,
                  snapshot, fresh, polled, quiet, disturbed, settled>>
  BY DEF vars, dbVars, loadVars, entryVars, history
<1>2. HistoryOK' /\ SchedulesOK' /\ AbsentPlain'
  BY <1>1, TablesKept
<1>3. NothingYet'
  BY <1>1, Zenon DEF StartInv, NothingYet, Blank, Present
<1>4. LoopsOver'
  BY <1>1, Zenon DEF StartInv, LoopsOver, Looping, Handled, Installing, Reloading, Batch
<1>5. InHand'
  BY <1>1, Zenon DEF StartInv, InHand, CleanSchedule, Wanted, Matching, Concerned, Refers
<1>6. ASSUME NEW n \in Names \ disturbed' PROVE TaskOK(n)'
  <2>1. TaskOK(n)
    BY <1>1, <1>6, Zenon DEF StartInv
  <2>2. Meaning(tasks[n])' = Meaning(tasks[n])
    BY <1>1, Zenon DEF Meaning
  <2>3. QED
    BY <1>1, <2>1, <2>2, TaskKept, Zenon
<1>7. QED
  BY <1>2, <1>3, <1>4, <1>5, <1>6, Zenon DEF StartInv

LEMMA StartInv_step == IInv /\ StartInv /\ [Next]_vars => StartInv'
<1> SUFFICES ASSUME IInv, StartInv, [Next]_vars PROVE StartInv'
  OBVIOUS
<1>1. CASE BeatStep
  BY <1>1, StartStart, QueryStart, PrefetchStart, PrefetchFailsStart, LoadedStart,
     DisableStart, GetScheduleStart, SaveScheduleStart, UpdateOrCreateStart, AccessStart,
     UpdateScheduleStart, Zenon
  DEF BeatStep
<1>2. CASE Stop
  BY <1>2, StopStart
<1>3. CASE ClientStep
  BY <1>3, ClientStepStart
<1>4. CASE UNCHANGED vars
  BY <1>4, StartInvStutters
<1>5. QED
  BY <1>1, <1>2, <1>3, <1>4 DEF Next

LEMMA StartInvHolds == Spec => []StartInv
BY IInvHolds, StartInv_init, StartInv_step, PTL DEF Spec

\* Whatever happened to the other entries, and whichever the tasks are that
\* clients touched meanwhile, setup_schedule() installs every entry that can
\* be installed, and loads it if it is enabled.
THEOREM SetupInstallsHolds == Spec => []SetupInstalls
<1>1. IInv /\ StartInv => SetupInstalls
  <2> SUFFICES ASSUME IInv, StartInv, pc = "ready", NEW n \in DOMAIN config \ disturbed,
                      Installable(n)
               PROVE  /\ Present(n) /\ Meaning(tasks[n]) = Wanted(n)
                      /\ schedule[n].enabled = tasks[n].enabled
                      /\ schedule[n].enabled => schedule[n].sched = Wanted(n)
    BY Zenon DEF SetupInstalls, Installable
  <2>1. config \in Configs
    BY DEF IInv, TypeOK
  <2>2. n \in Names
    BY <2>1, EntryType
  <2>3. TaskOK(n) /\ Serving
    BY <2>2, Zenon DEF StartInv, Serving
  <2>4. Converged(n) /\ Shown(n)
    BY <2>3, Zenon DEF TaskOK, Progress, Finished
  <2>5. Installed(n) /\ Wanted(n) \in Schedule
    BY <2>4, Zenon DEF Converged, Installable
  <2>6. Meaning(tasks[n]) = Wanted(n)
    BY <2>5, InstalledMeaning, WantedKind, Zenon
  <2>7. QED
    BY <2>4, <2>5, <2>6, Zenon DEF Installed, Shown, Agrees
<1>2. QED
  BY <1>1, IInvHolds, StartInvHolds, PTL

\* A start that nobody disturbs, of a configuration that such a start has
\* installed before, leaves the tables as that one left them.
THEOREM SetupIsIdempotentHolds == Spec => []SetupIsIdempotent
<1>1. StartInv => SetupIsIdempotent
  BY Zenon DEF StartInv, HistoryOK, SetupIsIdempotent
<1>2. QED
  BY <1>1, StartInvHolds, PTL
=============================================================================
