------------------------------ MODULE BeatSetup ------------------------------
(***************************************************************************)
(* How beat writes its configuration to the tables when it starts, and     *)
(* loads the tables, while clients add, edit and delete schedules and      *)
(* tasks.                                                                  *)
(*                                                                         *)
(* setup_schedule() reads the tables, installs the default entries, and    *)
(* then those of beat_schedule.  from_entry() is three transactions: it    *)
(* looks for a schedule of the entry's kind and value, saves what it found *)
(* or made, and creates or updates the task.  A reload is two: the query   *)
(* of the enabled tasks, and the prefetch of their schedules.              *)
(*                                                                         *)
(* A schedule is its kind and a value.  The rows of the four schedule      *)
(* tables have their keys from one sequence.  A client's form is a single  *)
(* step: what lies between a write and its notice is the subject of        *)
(* ChangeTracking, and runs are the subject of DatabaseScheduler.          *)
(***************************************************************************)
EXTENDS Integers

CONSTANTS
  Names,        \* the tasks
  NoName,       \* no entry is at work
  Configs,      \* configurations: name -> entry, as from_entry takes it
  Values,       \* what a schedule says; 0 is an interval of no period at all
  ClientOps,    \* what the clients do
  MaxId,        \* bound: keys of schedules
  MaxEvents     \* bound: operations of the clients, and stops of beat

Kinds == {"interval", "crontab", "solar", "clocked"}
Ids   == 1..MaxId
NoId  == 0

Schedule == [kind : Kinds, value : Values]
NoSchedule == [kind |-> "none", value |-> 0]

\* A field that an entry leaves unset keeps its value in the row.
Setting == {"unset", "on", "off"}
Given(setting, old) == IF setting = "unset" THEN old ELSE setting = "on"

Entry == [kind : Kinds \cup {"unknown"}, value : Values, enabled : Setting,
          one_off : Setting, expires : Setting, expire_seconds : BOOLEAN,
          default : BOOLEAN]   \* of install_default_entries

ASSUME NamesAssumption == NoName \notin Names
\* install_default_entries() gives an entry its task, its schedule and its
\* options, and leaves the rest to the row.
ASSUME ConfigsAssumption ==
  /\ Values \subseteq Nat
  /\ \A c \in Configs : DOMAIN c \subseteq Names /\ \A n \in DOMAIN c : c[n] \in Entry
  /\ \A c \in Configs : \A n \in DOMAIN c : c[n].default => c[n].enabled = "unset"
ASSUME OpsAssumption ==
  ClientOps \subseteq {"saveTask", "deleteTask", "addSchedule", "editSchedule",
                       "deleteSchedule"}
ASSUME BoundsAssumption == MaxId \in Nat /\ MaxEvents \in Nat

VARIABLES
  scheds, nextId,   \* the schedule tables, by key
  tasks, nextPk,    \* the table of tasks, by name
  notice,           \* last_update: none, seen by beat, or new
  config,           \* the configuration beat was started with
  pc,               \* where beat is
  batch,            \* 1: default entries, 2: beat_schedule
  ret,              \* where a reload goes on
  todo,             \* names a loop has still to visit
  cur, found,       \* from_entry(): its name, the schedule it uses
  s,                \* update_from_dict(): s
  schedule,         \* _schedule
  snapshot, fresh,  \* all_as_schedule(): the rows queried, the entries made
  polled,           \* _last_timestamp is set
  events,           \* counter for MaxEvents
  quiet, disturbed, \* history: no client since the start; tasks they touched
  settled           \* history: the tables as the last undisturbed start left them

dbVars    == <<scheds, nextId, tasks, nextPk, notice>>
loadVars  == <<ret, snapshot, fresh, polled>>
entryVars == <<batch, cur, found, s>>
history   == <<quiet, disturbed, settled>>
vars == <<dbVars, config, pc, todo, loadVars, entryVars, schedule, events,
          history>>

-----------------------------------------------------------------------------
(* Rows.                                                                   *)

Row == [pk : Nat, refs : [Kinds -> Ids \cup {NoId}], enabled : BOOLEAN,
        one_off : BOOLEAN, expires : BOOLEAN, expire_seconds : BOOLEAN,
        parses : BOOLEAN]
NoRow == [pk |-> 0, refs |-> [k \in Kinds |-> NoId], enabled |-> FALSE,
          one_off |-> FALSE, expires |-> FALSE, expire_seconds |-> FALSE,
          parses |-> TRUE]
\* The defaults of the fields of PeriodicTask.
NewRow == [pk |-> nextPk, refs |-> [k \in Kinds |-> NoId], enabled |-> TRUE,
           one_off |-> FALSE, expires |-> FALSE, expire_seconds |-> FALSE,
           parses |-> TRUE]

Present(n) == tasks[n].pk # 0

\* PeriodicTask.scheduler: the first of the four that is set.
Scheduler(row) ==
  CASE row.refs["interval"] # NoId -> row.refs["interval"]
    [] row.refs["interval"] = NoId /\ row.refs["crontab"] # NoId -> row.refs["crontab"]
    [] row.refs["interval"] = NoId /\ row.refs["crontab"] = NoId
       /\ row.refs["solar"] # NoId -> row.refs["solar"]
    [] OTHER -> row.refs["clocked"]

Meaning(row) == scheds[Scheduler(row)]

Only(kind, id) == [k \in Kinds |-> IF k = kind THEN id ELSE NoId]

\* Foreign keys, as the database checks them.
RefsExist(row) == \A k \in Kinds : row.refs[k] # NoId => scheds[row.refs[k]].kind = k

CleanExpires(row) == ~(row.expires /\ row.expire_seconds)

ValidateUnique(row) ==
  /\ \E k \in Kinds : row.refs[k] # NoId
  /\ \A k, j \in Kinds : row.refs[k] # NoId /\ row.refs[j] # NoId => k = j
  /\ row.refs["clocked"] # NoId => row.one_off

Valid(row) == CleanExpires(row) /\ ValidateUnique(row)

\* unique_together of SolarSchedule, for what is about to be saved as id.
UniqueSolar(id, sched) ==
  sched.kind = "solar" => \A other \in Ids \ {id} : scheds[other] # sched

\* MinValueValidator(1) of IntervalSchedule.every.
CleanSchedule(sched) == sched.kind = "interval" => sched.value >= 1

NoEntry == [enabled |-> FALSE, sched |-> NoSchedule]

NoRows    == [n \in Names |-> NoRow]
NoEntries == [n \in Names |-> NoEntry]

-----------------------------------------------------------------------------
\* A process that has ended, and the class attributes of the next one.
NoProcess ==
  /\ batch = 1 /\ ret = "setup" /\ todo = {}
  /\ cur = NoName /\ found = NoId /\ s = NoEntries
  /\ schedule = NoEntries /\ snapshot = NoRows /\ fresh = NoEntries
  /\ polled = FALSE

ForgetProcess ==
  /\ batch' = 1 /\ ret' = "setup" /\ todo' = {}
  /\ cur' = NoName /\ found' = NoId /\ s' = NoEntries
  /\ schedule' = NoEntries /\ snapshot' = NoRows /\ fresh' = NoEntries
  /\ polled' = FALSE

Init ==
  /\ scheds = [id \in Ids |-> NoSchedule] /\ nextId = 1
  /\ tasks = NoRows /\ nextPk = 1
  /\ notice = "none"
  /\ config \in Configs
  /\ pc = "down" /\ NoProcess
  /\ events = 0
  /\ quiet = TRUE /\ disturbed = {} /\ settled = <<>>

-----------------------------------------------------------------------------
(* Clients: the forms of the admin, or the ORM with the same effect.       *)

Refers(n, id) == \E k \in Kinds : tasks[n].refs[k] = id

\* The tasks that an operation on a schedule has to do with: those that
\* refer to it, and those whose entry asks for it.
Concerned(id, sched) ==
  {n \in Names : Refers(n, id)}
  \cup {n \in DOMAIN config : [kind |-> config[n].kind, value |-> config[n].value] = sched}

Happens == events < MaxEvents /\ events' = events + 1

Client(op, touched) ==
  /\ op \in ClientOps
  /\ Happens
  /\ notice' = "new"
  /\ quiet' = FALSE
  /\ disturbed' = disturbed \cup touched
  /\ settled' = <<>>
  /\ UNCHANGED <<config, pc, todo, loadVars, entryVars, schedule>>

\* A task is created or edited.  PeriodicTaskForm parses its arguments;
\* PeriodicTask.save() takes them as they are.
SaveTask(n) ==
  /\ Client("saveTask", {n})
  /\ \E id \in Ids, enabled, one_off, expires, expire_seconds, parses \in BOOLEAN :
       LET row == [pk |-> IF Present(n) THEN tasks[n].pk ELSE nextPk,
                   refs |-> Only(scheds[id].kind, id), enabled |-> enabled,
                   one_off |-> one_off, expires |-> expires,
                   expire_seconds |-> expire_seconds, parses |-> parses]
       IN /\ Valid(row) /\ RefsExist(row)
          /\ tasks' = [tasks EXCEPT ![n] = row]
          /\ nextPk' = IF Present(n) THEN nextPk ELSE nextPk + 1
  /\ UNCHANGED <<scheds, nextId>>

DeleteTask(n) ==
  /\ Client("deleteTask", {n})
  /\ Present(n)
  /\ tasks' = [tasks EXCEPT ![n] = NoRow]
  /\ UNCHANGED <<scheds, nextId, nextPk>>

AddSchedule(sched) ==
  /\ nextId <= MaxId
  /\ Client("addSchedule", Concerned(nextId, sched))
  /\ CleanSchedule(sched) /\ UniqueSolar(nextId, sched)
  /\ scheds' = [scheds EXCEPT ![nextId] = sched]
  /\ nextId' = nextId + 1
  /\ UNCHANGED <<tasks, nextPk>>

EditSchedule(id, value) ==
  LET sched == [scheds[id] EXCEPT !.value = value]
  IN /\ scheds[id] \in Schedule
     /\ Client("editSchedule", Concerned(id, sched) \cup Concerned(id, scheds[id]))
     /\ CleanSchedule(sched) /\ UniqueSolar(id, sched)
     /\ scheds' = [scheds EXCEPT ![id] = sched]
     /\ UNCHANGED <<nextId, tasks, nextPk>>

\* on_delete=CASCADE, in one transaction.
DeleteSchedule(id) ==
  /\ scheds[id] \in Schedule
  /\ Client("deleteSchedule", Concerned(id, scheds[id]))
  /\ scheds' = [scheds EXCEPT ![id] = NoSchedule]
  /\ tasks' = [n \in Names |-> IF Refers(n, id) THEN NoRow ELSE tasks[n]]
  /\ UNCHANGED <<nextId, nextPk>>

ClientStep ==
  \/ \E n \in Names : SaveTask(n) \/ DeleteTask(n)
  \/ \E sched \in Schedule : AddSchedule(sched)
  \/ \E id \in Ids, value \in Values : EditSchedule(id, value)
  \/ \E id \in Ids : DeleteSchedule(id)

-----------------------------------------------------------------------------
(* The life of beat.                                                       *)

\* DatabaseScheduler(): the first read of schedule does not look at the
\* notice row.
Start ==
  /\ pc \in {"down", "crashed"}
  /\ config' \in Configs
  /\ pc' = "query"
  /\ quiet' = TRUE /\ disturbed' = {}
  /\ settled' = IF config' = config THEN settled ELSE <<>>
  /\ UNCHANGED <<dbVars, todo, loadVars, entryVars, schedule, events>>

Stop ==
  /\ pc \notin {"down", "crashed"}
  /\ Happens
  /\ pc' = "down" /\ ForgetProcess
  /\ UNCHANGED <<dbVars, config, history>>

Crash == pc' = "crashed" /\ ForgetProcess

-----------------------------------------------------------------------------
(* all_as_schedule().                                                      *)

QueryTasks ==
  /\ pc = "query"
  /\ snapshot' = [n \in Names |-> IF tasks[n].enabled THEN tasks[n] ELSE NoRow]
  /\ pc' = "prefetch"
  /\ UNCHANGED <<dbVars, config, todo, ret, fresh, polled, entryVars, schedule,
                 events, history>>

Queried == {n \in Names : snapshot[n].pk # 0}

\* prefetch_related() caches None where a schedule is gone by now, and the
\* schedule of None is an AttributeError, which nothing catches.
PrefetchFails ==
  /\ pc = "prefetch"
  /\ \E n \in Queried : ~RefsExist(snapshot[n])
  /\ Crash
  /\ UNCHANGED <<dbVars, config, events, history>>

Prefetch ==
  /\ pc = "prefetch"
  /\ \A n \in Queried : RefsExist(snapshot[n])
  /\ fresh' = [n \in Names |->
                 IF n \notin Queried THEN NoEntry
                 ELSE [enabled |-> snapshot[n].parses, sched |-> Meaning(snapshot[n])]]
  /\ todo' = {n \in Queried : ~snapshot[n].parses}
  /\ pc' = "disable"
  /\ UNCHANGED <<dbVars, config, ret, snapshot, polled, entryVars, schedule,
                 events, history>>

\* _disable(), of a task whose arguments cannot be read: all of the instance
\* is saved, without a notice, and inserted again where it has been deleted.
Disable(n) ==
  /\ pc = "disable" /\ n \in todo
  /\ IF tasks[n].pk \in {0, snapshot[n].pk} /\ RefsExist(snapshot[n])
     THEN /\ tasks' = [tasks EXCEPT ![n] = [snapshot[n] EXCEPT !.enabled = FALSE]]
          /\ todo' = todo \ {n}
          /\ UNCHANGED <<pc, loadVars, entryVars, schedule>>
     ELSE Crash /\ UNCHANGED tasks
  /\ UNCHANGED <<scheds, nextId, nextPk, notice, config, events, history>>

Batch(b) == {n \in DOMAIN config : config[n].default <=> b = 1}

\* update_from_dict(): the loop, if there is anything to loop over.
BeginBatch(b) ==
  /\ batch' = b
  /\ s' = NoEntries
  /\ todo' = Batch(b)
  /\ pc' = IF Batch(b) = {} THEN "poll" ELSE "get"

\* The reload has ended: the schedule is replaced.
Loaded ==
  /\ pc = "disable" /\ todo = {}
  /\ schedule' = fresh
  /\ snapshot' = NoRows /\ fresh' = NoEntries
  /\ IF ret = "setup" THEN BeginBatch(1)
     ELSE pc' = ret /\ UNCHANGED <<batch, s, todo>>
  /\ UNCHANGED <<dbVars, config, ret, polled, cur, found, events, history>>

-----------------------------------------------------------------------------
(* from_entry(), for the entry of cur.                                     *)

Wanted(n) == [kind |-> config[n].kind, value |-> config[n].value]

\* An entry is done, or has raised: update_from_dict() logs it and goes on.
NextEntry(n) ==
  /\ todo' = todo \ {n}
  /\ pc' = IF todo' = {} THEN "poll" ELSE "get"
  /\ cur' = NoName /\ found' = NoId

\* Mutant: an exception ends the loop.
AbandonBatch(n) ==
  /\ todo' = {}
  /\ pc' = "poll"
  /\ cur' = NoName /\ found' = NoId

EntryFails(n) == NextEntry(n)

\* Mutant: from_schedule() does not look for a row.
GetScheduleNever(n) ==
  /\ pc = "get" /\ n \in todo
  /\ IF Wanted(n) \in Schedule /\ CleanSchedule(Wanted(n))
     THEN pc' = "save" /\ cur' = n /\ UNCHANGED <<found, todo>>
     ELSE EntryFails(n)
  /\ UNCHANGED <<dbVars, config, loadVars, batch, s, schedule, events, history>>

\* get() or first(): any row that says the same.
Matching(sched) == {id \in Ids : scheds[id] = sched}

\* from_schedule(): a row that matches, or an instance without a key, which
\* for an interval is validated.
FromSchedule(sched) ==
  CASE Matching(sched) # {} -> Matching(sched)
    [] Matching(sched) = {} /\ CleanSchedule(sched)  -> {NoId}
    [] Matching(sched) = {} /\ ~CleanSchedule(sched) -> {}

\* to_model_schedule(), up to the save: a schedule of no known type raises.
GetSchedule(n) ==
  /\ pc = "get" /\ n \in todo
  /\ IF Wanted(n) \in Schedule /\ FromSchedule(Wanted(n)) # {}
     THEN /\ cur' = n
          /\ found' \in FromSchedule(Wanted(n))
          /\ pc' = "save"
          /\ UNCHANGED todo
     ELSE EntryFails(n)
  /\ UNCHANGED <<dbVars, config, loadVars, batch, s, schedule, events, history>>

\* model_schedule.save(): an update, or an insertion where there is no row
\* of that key; either may run into unique_together.
SaveSchedule ==
  /\ pc = "save"
  /\ LET id == IF found = NoId THEN nextId ELSE found
     IN /\ id <= MaxId
        /\ IF UniqueSolar(id, Wanted(cur))
           THEN /\ scheds' = [scheds EXCEPT ![id] = Wanted(cur)]
                /\ nextId' = IF found = NoId THEN nextId + 1 ELSE nextId
                /\ notice' = "new"
                /\ found' = id
                /\ pc' = "task"
                /\ UNCHANGED <<cur, todo>>
           ELSE EntryFails(cur) /\ UNCHANGED <<scheds, nextId, notice>>
  /\ UNCHANGED <<tasks, nextPk, config, loadVars, batch, s, schedule, events, history>>

\* What update_or_create() makes of the row: _unpack_fields() sets one
\* reference and clears the other three, and sets the arguments and the
\* options; other fields only if the entry has them.
Unpack(n, old, id) ==
  [pk |-> old.pk, refs |-> Only(config[n].kind, id),
   enabled |-> Given(config[n].enabled, old.enabled),
   one_off |-> Given(config[n].one_off, old.one_off),
   expires |-> Given(config[n].expires, old.expires),
   expire_seconds |-> config[n].expire_seconds, parses |-> TRUE]

Unpacked(n) == Unpack(n, IF Present(n) THEN tasks[n] ELSE NewRow, found)

\* Mutant: the row is updated without PeriodicTask.save().
UpdateWithoutSave ==
  /\ pc = "task"
  /\ IF RefsExist(Unpacked(cur))
     THEN /\ tasks' = [tasks EXCEPT ![cur] = Unpacked(cur)]
          /\ nextPk' = IF Present(cur) THEN nextPk ELSE nextPk + 1
          /\ notice' = "new"
          /\ s' = IF Unpacked(cur).enabled
                  THEN [s EXCEPT ![cur] = [enabled |-> TRUE, sched |-> Wanted(cur)]]
                  ELSE s
     ELSE UNCHANGED <<tasks, nextPk, notice, s>>
  /\ NextEntry(cur)
  /\ UNCHANGED <<scheds, nextId, config, loadVars, batch, schedule,
                 events, history>>

\* update_or_create(): PeriodicTask.save() validates the merged row, and the
\* database its foreign keys.
UpdateOrCreate ==
  /\ pc = "task"
  /\ IF Valid(Unpacked(cur)) /\ RefsExist(Unpacked(cur))
     THEN /\ tasks' = [tasks EXCEPT ![cur] = Unpacked(cur)]
          /\ nextPk' = IF Present(cur) THEN nextPk ELSE nextPk + 1
          /\ notice' = "new"
          /\ s' = IF Unpacked(cur).enabled
                  THEN [s EXCEPT ![cur] = [enabled |-> TRUE, sched |-> Wanted(cur)]]
                  ELSE s
          /\ NextEntry(cur)
     ELSE EntryFails(cur) /\ UNCHANGED <<tasks, nextPk, notice, s>>
  /\ UNCHANGED <<scheds, nextId, config, loadVars, batch, schedule,
                 events, history>>

-----------------------------------------------------------------------------
(* The property schedule, after the first read.                            *)

\* Mutant: nothing forces a reload.
AccessUnforced(forced) ==
  /\ ~forced
  /\ pc \in {"poll", "ready"}
  /\ polled' = (notice # "none")
  /\ notice' = IF notice = "new" THEN "seen" ELSE notice
  /\ LET after == IF pc = "poll" THEN "update" ELSE "ready"
     IN IF polled /\ notice = "new"
        THEN pc' = "query" /\ ret' = after
        ELSE pc' = after /\ UNCHANGED ret
  /\ UNCHANGED <<scheds, nextId, tasks, nextPk, config, todo, snapshot, fresh,
                 entryVars, schedule, events, history>>

\* Mutant: a reload inside update_from_dict() goes back to the poll.
AccessAgain(forced) ==
  /\ pc \in {"poll", "ready"}
  /\ polled' = (notice # "none")
  /\ notice' = IF notice = "new" THEN "seen" ELSE notice
  /\ IF forced \/ (polled /\ notice = "new")
     THEN pc' = "query" /\ ret' = pc
     ELSE pc' = (IF pc = "poll" THEN "update" ELSE pc) /\ UNCHANGED ret
  /\ UNCHANGED <<scheds, nextId, tasks, nextPk, config, todo, snapshot, fresh,
                 entryVars, schedule, events, history>>

\* Beat reads the notice row, and reloads where the stamp has changed since
\* it last looked, or five minutes have passed.  The reload begins with
\* sync(), which has nothing to save: nothing runs during setup, nor here
\* after it.  (The sync of runs is in DatabaseScheduler.)
Access(forced) ==
  /\ pc \in {"poll", "ready"}
  /\ polled' = (notice # "none")
  /\ notice' = IF notice = "new" THEN "seen" ELSE notice
  /\ LET after == IF pc = "poll" THEN "update" ELSE "ready"
     IN IF forced \/ (polled /\ notice = "new")
        THEN pc' = "query" /\ ret' = after
        ELSE pc' = after /\ UNCHANGED ret
  /\ UNCHANGED <<scheds, nextId, tasks, nextPk, config, todo, snapshot, fresh,
                 entryVars, schedule, events, history>>

\* The tables, with references replaced by what they refer to.
Contents ==
  [config |-> config, scheds |-> scheds,
   tasks |-> [n \in Names |->
     <<[tasks[n] EXCEPT !.refs = <<>>],
       IF Present(n) THEN Meaning(tasks[n]) ELSE NoSchedule>>]]

\* Mutant: the entries of a batch become the schedule.
UpdateReplacing ==
  /\ pc = "update"
  /\ schedule' = s
  /\ IF batch = 1
     THEN BeginBatch(2) /\ UNCHANGED settled
     ELSE /\ pc' = "ready" /\ s' = NoEntries
          /\ settled' = IF quiet /\ settled = <<>> THEN <<Contents>> ELSE settled
          /\ UNCHANGED <<batch, todo>>
  /\ UNCHANGED <<dbVars, config, loadVars, cur, found, events, quiet, disturbed>>

\* self.schedule.update(s): over what a reload may just have put there.
UpdateSchedule ==
  /\ pc = "update"
  /\ schedule' = [n \in Names |-> IF s[n] # NoEntry THEN s[n] ELSE schedule[n]]
  /\ IF batch = 1
     THEN BeginBatch(2) /\ UNCHANGED settled
     ELSE /\ pc' = "ready" /\ s' = NoEntries
          /\ settled' = IF quiet /\ settled = <<>> THEN <<Contents>> ELSE settled
          /\ UNCHANGED <<batch, todo>>
  /\ UNCHANGED <<dbVars, config, loadVars, cur, found, events, quiet, disturbed>>

-----------------------------------------------------------------------------
BeatStep ==
  \/ Start \/ QueryTasks \/ Prefetch \/ PrefetchFails \/ Loaded
  \/ \E n \in Names : Disable(n) \/ GetSchedule(n)
  \/ SaveSchedule \/ UpdateOrCreate
  \/ \E forced \in BOOLEAN : Access(forced)
  \/ UpdateSchedule

Next == BeatStep \/ Stop \/ ClientStep

Spec == Init /\ [][Next]_vars

\* A supervisor starts beat again; its loop reads the schedule at least every
\* max_interval, and once in a while five minutes have passed.
FairSpec == Spec /\ WF_vars(BeatStep)

-----------------------------------------------------------------------------
Entries == [enabled : BOOLEAN, sched : Schedule \cup {NoSchedule}]

\* The types of the variables.
TypeOK ==
  /\ scheds \in [Ids -> Schedule \cup {NoSchedule}]
  /\ nextId \in Nat \ {0} /\ nextPk \in Nat \ {0}
  /\ tasks \in [Names -> Row] /\ snapshot \in [Names -> Row]
  /\ notice \in {"none", "seen", "new"}
  /\ config \in Configs
  /\ pc \in {"down", "crashed", "query", "prefetch", "disable", "get", "save",
             "task", "poll", "update", "ready"}
  /\ batch \in {1, 2} /\ ret \in {"setup", "update", "ready"}
  /\ todo \subseteq Names /\ cur \in Names \cup {NoName} /\ found \in Ids \cup {NoId}
  /\ s \in [Names -> Entries] /\ schedule \in [Names -> Entries]
  /\ fresh \in [Names -> Entries]
  /\ polled \in BOOLEAN
  /\ events \in Nat
  /\ quiet \in BOOLEAN /\ disturbed \subseteq Names

\* Whatever beat and its clients do at the same time, every row has exactly
\* one schedule, which is in its table; a clocked task is one-off; only one
\* expiry is set.
RowsConsistent ==
  \A n \in Names : Present(n) => Valid(tasks[n]) /\ RefsExist(tasks[n])

\* An entry that could be installed is, whatever happened to the others: its
\* row has its schedule, and is loaded if it is enabled.  The entries that
\* clients touched meanwhile are left out.
SetupInstalls ==
  pc = "ready" => \A n \in DOMAIN config \ disturbed :
    (Wanted(n) \in Schedule /\ CleanSchedule(Wanted(n)) /\ Valid(Unpack(n, tasks[n], 1))) =>
      /\ Present(n) /\ Meaning(tasks[n]) = Wanted(n)
      /\ schedule[n].enabled = tasks[n].enabled
      /\ schedule[n].enabled => schedule[n].sched = Wanted(n)

\* A start that nobody disturbs leaves the tables as the one before left
\* them: no second schedule row, no other change of a task.
SetupIsIdempotent ==
  pc = "ready" /\ settled # <<>> => settled = <<Contents>>

\* In the end beat's schedule is what the table says, with nothing left of
\* what update() put back after a reload had dropped it.
ScheduleHeals ==
  <>[](\A n \in Names :
         /\ schedule[n].enabled = tasks[n].enabled
         /\ tasks[n].enabled => schedule[n].sched = Meaning(tasks[n]))

\* What ModelEntry logs of a schedule that was removed from the database, is
\* that the task is disabled: beat goes on.
RemovedIsDisabled == pc # "crashed"
=============================================================================
