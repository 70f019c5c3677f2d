---------------------------- MODULE SpacingProofs ----------------------------
(***************************************************************************)
(* Proofs that the interval of a task passes between two of its runs.      *)
(*                                                                         *)
(* Four things remember when a task has last run: its row, its instance,   *)
(* its entry in _schedule and its entry in the heap.  A run moves the      *)
(* instance and its entry in the heap only; what follows is why a reload,  *)
(* a restart or a poll never lets tick() see one of the others that is     *)
(* older than the run.  With the counts, which DirtyInv and StopInv are    *)
(* about, that makes the scheduler an implementation of Ledger.            *)
(***************************************************************************)
EXTENDS SchedulerTableProofs

-----------------------------------------------------------------------------
(* The rows and the instances.                                             *)

\* Every row and instance has the first key of its name, the forms of the
\* client too.
FirstKeys ==
  /\ \A t \in Tasks : row[t].pk \in {0, 1} /\ model[t].pk \in {0, 1}
  /\ cpc \in {"form", "write"} => form.pk = 1
  /\ pc = "put" => obj.pk = 1

\* A last_run_at that is not older than the last run of t.
After(t, run) == sentAt[t] # 0 => run >= sentAt[t]

RowRemembers(t) == row[t].enabled => After(t, row[t].lastRun)

\* The row of an instance that is_due() has ended is off as well, until the
\* client turns it on.
ModelRemembers(t) ==
  /\ model[t].enabled => After(t, model[t].lastRun)
  /\ ~model[t].enabled /\ model[t].pk # 0 /\ row[t].enabled => sentAt[t] = 0

\* tick() is about to push the entry that it has popped.
Popped == pc \in {"sent", "push"} \/ Syncing("push")

\* The run of a task is in its row, or will be after a sync() or a reload.
RunInv ==
  /\ \A t \in Tasks : sentAt[t] <= now
  /\ \A t \in Tasks : /\ ModelRemembers(t)
                      /\ RowRemembers(t) \/ t \in dirty \cap Scheduled
  /\ pc \in {"sync", "put"} =>
       \A t \in Tasks : /\ RowRemembers(t) \/ Saving(t)
                        /\ t \in saved => RowRemembers(t)
  /\ pc = "put" /\ obj.enabled =>
       After(cur, obj.lastRun) /\ (~model[cur].enabled => sentAt[cur] = 0)
  /\ pc = "down" => \A t \in Tasks : RowRemembers(t)
  /\ Popped => model[popped].enabled

\* The client gives a form the key of the row it is opened from.
LEMMA First_client ==
  ASSUME "create" \notin ClientOps, TypeOK, FirstKeys, Tick \/ ClientStep
  PROVE  FirstKeys'
<1> USE DEF clientVars, memoryVars, syncVars, beatUnchanged
<1>1. CASE Tick \/ ClientPosts
  BY <1>1 DEF Tick, ClientPosts, dbVars, FirstKeys
<1>2. ASSUME NEW t \in Tasks, ClientGets(t) PROVE FirstKeys'
  BY <1>2 DEF ClientGets, ClientBegins, dbVars, FirstKeys
<1>3. ASSUME NEW t \in Tasks, ClientCreates(t) PROVE FALSE
  BY <1>3 DEF ClientCreates, ClientBegins
<1>4. ASSUME NEW t \in Tasks, ClientDeletes(t) PROVE FirstKeys'
  <2>1. /\ row' = [row EXCEPT ![t] = NoRow] /\ cpc' = "post"
        /\ UNCHANGED <<model, pc, obj>>
    BY <1>4, Zenon DEF ClientDeletes
  <2>2. NoRow.pk = 0 /\ row \in [Tasks -> RowType]
    BY DEF NoRow, TypeOK
  <2>3. QED
    BY <2>1, <2>2 DEF FirstKeys
<1>5. ASSUME NEW o \in ClientOps, NEW S \in SUBSET Tasks, ClientUpdates(o, S)
      PROVE  FirstKeys'
  <2>1. cpc' = "post" /\ UNCHANGED <<model, pc, obj>>
    BY <1>5, Zenon DEF ClientUpdates
  <2>2. \A t \in Tasks : row'[t].pk = row[t].pk
    BY <1>5, UpdatesType
  <2>3. QED
    BY <2>1, <2>2 DEF FirstKeys
<1>6. CASE ClientSaves
  <2>1. /\ UNCHANGED <<row, model, pc, obj>> /\ cpc = "form" /\ cpc' = "write"
        /\ \E e \in BOOLEAN : form' = [form EXCEPT !.enabled = e]
    BY <1>6, Zenon DEF ClientSaves
  <2>2. form'.pk = form.pk
    BY <2>1 DEF TypeOK, RowType
  <2>3. QED
    BY <2>1, <2>2 DEF FirstKeys
<1>7. CASE ClientWrites
  <2>1. /\ cpc = "write" /\ cpc' \in {"idle", "post"} /\ UNCHANGED <<model, pc, obj>>
        /\ \/ row' = row
           \/ row' = [row EXCEPT ![cname] = Written([form EXCEPT !.rev = @ + 1])]
    BY <1>7, Zenon DEF ClientWrites
  <2>2. cname \in Tasks /\ form \in RowType /\ row \in [Tasks -> RowType]
    BY <2>1 DEF TypeOK
  <2>3. Written([form EXCEPT !.rev = @ + 1]).pk = form.pk
    BY <2>2 DEF Written, RowType
  <2>4. QED
    BY <2>1, <2>2, <2>3 DEF FirstKeys
<1>8. QED
  BY <1>1, <1>2, <1>3, <1>4, <1>5, <1>6, <1>7 DEF ClientStep

\* Every step keeps the keys: sync() and is_due() write a row with the key of
\* the instance, a reload makes instances with the keys of the rows.
LEMMA First_next ==
  ASSUME "create" \notin ClientOps
  PROVE  TypeOK /\ FirstKeys /\ [Next]_vars => FirstKeys'
<1> SUFFICES ASSUME TypeOK, FirstKeys, [Next]_vars PROVE FirstKeys'
  OBVIOUS
<1> USE DEF dbVars, clientVars, memoryVars, syncVars
<1>1. ASSUME \/ Access \/ PollFails
             \/ StartTick \/ PopulateDone \/ RunNothing \/ SyncAfterSend \/ Push
             \/ ServiceSync \/ Stop \/ LoadFails \/ Close \/ Kill
      PROVE  FirstKeys'
  <2>1. UNCHANGED <<row, model, cpc, form>>
    BY <1>1, Zenon DEF Access, PollFails, StartTick, PopulateDone, RunNothing,
         SyncAfterSend, Push, ServiceSync, Stop, LoadFails, Close, Kill
  <2>2. CASE Access \/ PollFails
    <3>1. PICK changed : Decide(changed)
      BY <2>2, Zenon DEF Access, PollFails
    <3>2. pc' # "put"
      BY <3>1, TypeOK_decide
    <3>3. QED
      BY <2>1, <3>2 DEF FirstKeys
  <2>3. CASE ~(Access \/ PollFails)
    <3>1. pc' # "put"
      BY <1>1, <2>3 DEF StartTick, PopulateDone, RunNothing, SyncAfterSend, Push,
           ServiceSync, Stop, LoadFails, Close, Kill, BeginSync
    <3>2. QED
      BY <2>1, <3>1 DEF FirstKeys
  <2>4. QED
    BY <2>2, <2>3
<1>2. CASE Load
  <2>1. /\ UNCHANGED <<row, cpc, form>>
        /\ pc' \in {"idle", "access", "run", "populate"}
    BY <1>2 DEF Load, Continue, InSetup
  <2>2. \A t \in Tasks : model'[t].pk \in {0, row[t].pk}
    BY <1>2, LoadType
  <2>3. QED
    BY <2>1, <2>2 DEF FirstKeys
<1>3. ASSUME NEW t \in Tasks, SyncGet(t) PROVE FirstKeys'
  <2>1. /\ pc = "sync"
        /\ \/ /\ pc' = "put" /\ obj' = Got(t) /\ t \in Scheduled
           \/ UNCHANGED <<pc, cur, obj>>
        /\ UNCHANGED <<row, model, cpc, form>>
    BY <1>3, Zenon DEF SyncGet, Got, dbUnchangedBySync
  <2>2. Got(t).pk = model[t].pk
    BY GotFields
  <2>3. QED
    BY <2>1, <2>2 DEF FirstKeys, Scheduled
<1>4. CASE SyncPut
  <2>1. /\ pc = "put" /\ pc' = "sync" /\ row' = [row EXCEPT ![cur] = Written(obj)]
        /\ UNCHANGED <<model, cpc, form>>
    BY <1>4, Zenon DEF SyncPut, dbUnchangedBySync
  <2>2. row \in [Tasks -> RowType] /\ Written(obj).pk = obj.pk
    BY DEF TypeOK, Written
  <2>3. QED
    BY <2>1, <2>2 DEF FirstKeys
<1>5. CASE SyncRaises \/ SyncFails \/ SyncDone
  <2>1. pc' \in {"closing", ret} /\ UNCHANGED <<row, model, cpc, form>>
    BY <1>5, Zenon DEF SyncRaises, SyncFails, SyncDone, EndSync, dbUnchangedBySync
  <2>2. pc' # "put"
    BY <2>1 DEF TypeOK
  <2>3. QED
    BY <2>1, <2>2 DEF FirstKeys
<1>6. ASSUME NEW t \in Tasks, PopulateEntry(t) \/ RunNotDue(t) PROVE FirstKeys'
  <2>1. PICK run : Check(t, run)
    BY <1>6, Zenon DEF PopulateEntry, RunNotDue
  <2>2. pc' \in {"populate", "idle"} /\ UNCHANGED <<cpc, form>>
    BY <1>6 DEF PopulateEntry, RunNotDue
  <2>3. \A u \in Tasks : row'[u].pk \in {row[u].pk, model[u].pk}
    BY <2>1, CheckType
  <2>4. \A u \in Tasks : model'[u].pk = model[u].pk
    BY <2>1, CheckKeepsKeys DEF Check
  <2>5. QED
    BY <2>2, <2>3, <2>4 DEF FirstKeys
<1>7. ASSUME NEW t \in Tasks, PopulateRaises(t) \/ RunRaises(t) PROVE FirstKeys'
  <2>1. PICK run : CheckRaises(t, run)
    BY <1>7, Zenon DEF PopulateRaises, RunRaises
  <2>2. /\ model' = [model EXCEPT ![t] = Checked(t, run)] /\ pc' = "closing"
        /\ UNCHANGED <<row, cpc, form>>
    BY <2>1, Zenon DEF CheckRaises
  <2>3. \A u \in Tasks : model'[u].pk = model[u].pk
    BY <2>2, CheckKeepsKeys
  <2>4. QED
    BY <2>2, <2>3 DEF FirstKeys
<1>8. ASSUME NEW t \in Tasks, RunDue(t) PROVE FirstKeys'
  <2> DEFINE m == model[t]
             n == model[t].count + 1
             r == [m EXCEPT !.lastRun = now, !.count = n, !.noChanges = TRUE]
  <2>1. m \in ModelType /\ n \in Nat /\ now \in Int
    BY DEF TypeOK, ModelType
  <2>2. /\ model' = [model EXCEPT ![t] = r] /\ pc' = "sent"
        /\ UNCHANGED <<row, cpc, form>>
    BY <1>8, Zenon DEF RunDue, Reserve
  <2> HIDE DEF n
  <2>3. r.pk = model[t].pk
    BY <2>1, ReservedType
  <2> HIDE DEF m, r
  <2>4. \A u \in Tasks : model'[u].pk = model[u].pk
    BY <2>2, <2>3 DEF TypeOK
  <2>5. QED
    BY <2>2, <2>4 DEF FirstKeys
<1>9. CASE Restart
  <2>1. /\ model' = [t \in Tasks |-> NoModel] /\ pc' = "load"
        /\ UNCHANGED <<row, cpc, form>>
    BY <1>9, Zenon DEF Restart
  <2>2. QED
    BY <2>1 DEF FirstKeys, NoModel
<1>10. CASE UNCHANGED vars
  BY <1>10, Zenon DEF vars, FirstKeys
<1>11. QED
  BY <1>1, <1>2, <1>3, <1>4, <1>5, <1>6, <1>7, <1>8, <1>9, <1>10, First_client
  DEF Next, BeatStep

\* A step of control, that reads no row and writes none.
LEMMA Run_quiet ==
  ASSUME RunInv, UNCHANGED <<now, row, model, dirty, sentAt>>,
         pc' \notin {"sync", "put", "down"},
         Popped' => Popped /\ popped' = popped
  PROVE  RunInv'
<1>1. Scheduled' = Scheduled
  BY DEF Scheduled
<1>2. \A t \in Tasks : /\ ModelRemembers(t)' = ModelRemembers(t)
                       /\ RowRemembers(t)' = RowRemembers(t)
  BY DEF ModelRemembers, RowRemembers, After
<1>3. pc' # "sync" /\ pc' # "put" /\ pc' # "down"
  OBVIOUS
<1>4. Popped' => model'[popped'].enabled
  BY Zenon DEF RunInv
<1>5. \A t \in Tasks : sentAt'[t] <= now'
  BY DEF RunInv
<1>6. \A t \in Tasks : /\ ModelRemembers(t)'
                       /\ RowRemembers(t)' \/ t \in dirty' \cap Scheduled'
  BY <1>1, <1>2, Zenon DEF RunInv
<1>7. pc' \notin {"sync", "put"}
  OBVIOUS
<1>8. QED
  BY <1>3, <1>4, <1>5, <1>6, <1>7, Zenon DEF RunInv

\* A sync() begins with all of _dirty.
LEMMA Run_begins ==
  ASSUME RunInv, UNCHANGED <<now, row, model, dirty, sentAt, popped>>,
         pc' = "sync", left' = dirty, saved' = {},
         Popped' => Popped
  PROVE  RunInv'
<1>1. Scheduled' = Scheduled
  BY DEF Scheduled
<1>2. \A t \in Tasks : /\ ModelRemembers(t)' = ModelRemembers(t)
                       /\ RowRemembers(t)' = RowRemembers(t)
  BY DEF ModelRemembers, RowRemembers, After
<1>3. pc' # "put" /\ pc' # "down"
  OBVIOUS
<1>4. Popped' => model'[popped'].enabled
  BY Zenon DEF RunInv
<1>5. \A t \in Tasks : sentAt'[t] <= now'
  BY DEF RunInv
<1>6. \A t \in Tasks : /\ ModelRemembers(t)'
                       /\ RowRemembers(t)' \/ t \in dirty' \cap Scheduled'
  BY <1>1, <1>2, Zenon DEF RunInv
<1>7. \A t \in Tasks : t \in dirty => Saving(t)'
  BY DEF Saving
<1>8. \A t \in Tasks : /\ RowRemembers(t)' \/ Saving(t)'
                       /\ t \in saved' => RowRemembers(t)'
  BY <1>6, <1>7
<1>9. QED
  BY <1>3, <1>4, <1>5, <1>6, <1>8, Zenon DEF RunInv

\* What the client touches has no last run any more.
LEMMA Run_touches ==
  ASSUME TypeOK, RunInv, now' \in {now, now + 1},
         UNCHANGED <<model, dirty, pc, ret, left, saved, cur, obj, popped>>,
         \A t \in Tasks : \/ sentAt'[t] = 0
                          \/ sentAt'[t] = sentAt[t] /\ row'[t] = row[t]
  PROVE  RunInv'
<1>1. \A t \in Tasks : sentAt'[t] <= now'
  BY DEF TypeOK, RunInv
<1>2. ASSUME NEW t \in Tasks
      PROVE  /\ ModelRemembers(t) => ModelRemembers(t)'
             /\ RowRemembers(t) => RowRemembers(t)'
  BY DEF ModelRemembers, RowRemembers, After
<1>3. /\ Scheduled' = Scheduled /\ Popped' = Popped
      /\ \A t \in Tasks : Saving(t)' = Saving(t)
  BY DEF Scheduled, Popped, Syncing, Saving
<1>4. \A t \in Tasks : /\ ModelRemembers(t)'
                       /\ RowRemembers(t)' \/ t \in dirty' \cap Scheduled'
  BY <1>2, <1>3, Zenon DEF RunInv
<1>5. (pc \in {"sync", "put"})' =>
        \A t \in Tasks : /\ RowRemembers(t)' \/ Saving(t)'
                         /\ t \in saved' => RowRemembers(t)'
  BY <1>2, <1>3, Zenon DEF RunInv
<1>6. ASSUME pc' = "put" /\ obj'.enabled
      PROVE  After(cur, obj.lastRun)' /\ (~model'[cur'].enabled => sentAt'[cur'] = 0)
  <2>1. PICK t \in Tasks : t = cur
    BY <1>6 DEF TypeOK
  <2>2. After(t, obj.lastRun) /\ (~model[t].enabled => sentAt[t] = 0)
    BY <1>6, <2>1, Zenon DEF RunInv
  <2>3. sentAt'[t] = 0 \/ sentAt'[t] = sentAt[t]
    OBVIOUS
  <2>4. QED
    BY <2>1, <2>2, <2>3 DEF After
<1>7. pc' = "down" => \A t \in Tasks : RowRemembers(t)'
  BY <1>2, Zenon DEF RunInv
<1>8. Popped' => model'[popped'].enabled
  BY <1>3, Zenon DEF RunInv
<1>9. QED
  BY <1>1, <1>4, <1>5, <1>6, <1>7, <1>8, Zenon DEF RunInv

\* The client, and the clock.
LEMMA Run_client ==
  ASSUME TypeOK, RunInv, Tick \/ ClientStep
  PROVE  RunInv'
<1> USE DEF dbVars, clientVars, memoryVars, syncVars, history, beatUnchanged
<1>1. /\ UNCHANGED <<model, dirty, pc, ret, left, saved, cur, obj, popped>>
      /\ now' \in {now, now + 1}
  BY DEF Tick, ClientStep, ClientGets, ClientCreates, ClientDeletes,
     ClientUpdates, ClientSaves, ClientWrites, ClientPosts
<1>2. ASSUME NEW S \in SUBSET Tasks, ClientTouches(S), NEW t \in Tasks
      PROVE  IF t \in S THEN sentAt'[t] = 0 ELSE sentAt'[t] = sentAt[t]
  BY <1>2 DEF ClientTouches
<1>3. row \in [Tasks -> RowType]
  BY DEF TypeOK
<1>4. \A t \in Tasks : \/ sentAt'[t] = 0
                       \/ sentAt'[t] = sentAt[t] /\ row'[t] = row[t]
  <2>1. CASE Tick \/ ClientSaves \/ ClientPosts
    BY <2>1 DEF Tick, ClientSaves, ClientPosts
  <2>2. ASSUME NEW u \in Tasks, ClientGets(u) \/ ClientCreates(u)
        PROVE  UNCHANGED <<row, sentAt>>
    BY <2>2 DEF ClientGets, ClientCreates
  <2>3. ASSUME NEW u \in Tasks, ClientDeletes(u)
        PROVE  \A t \in Tasks : \/ sentAt'[t] = 0
                                \/ sentAt'[t] = sentAt[t] /\ row'[t] = row[t]
    <3>1. row' = [row EXCEPT ![u] = NoRow] /\ ClientTouches({u})
      BY <2>3, Zenon DEF ClientDeletes
    <3>2. {u} \in SUBSET Tasks
      OBVIOUS
    <3>3. QED
      BY <1>2, <1>3, <3>1, <3>2
  <2>4. ASSUME NEW o \in ClientOps, NEW S \in SUBSET Tasks, ClientUpdates(o, S)
        PROVE  \A t \in Tasks : \/ sentAt'[t] = 0
                                \/ sentAt'[t] = sentAt[t] /\ row'[t] = row[t]
    <3>1. /\ \A t \in Tasks \ S : row'[t] = row[t]
          /\ ClientTouches(S)
      BY <2>4, Zenon DEF ClientUpdates
    <3>2. QED
      BY <1>2, <3>1
  <2>5. CASE ClientWrites
    <3>1. CASE UNCHANGED <<row, sentAt>>
      BY <3>1
    <3>2. CASE ~UNCHANGED <<row, sentAt>>
      <4>1. /\ row' = [row EXCEPT ![cname] = Written([form EXCEPT !.rev = @ + 1])]
            /\ ClientTouches({cname}) /\ cpc = "write"
        BY <2>5, <3>2, Zenon DEF ClientWrites
      <4>2. PICK u \in Tasks : u = cname
        BY <4>1 DEF TypeOK
      <4>3. {cname} \in SUBSET Tasks
        BY <4>2
      <4>4. QED
        BY <1>2, <1>3, <4>1, <4>3
    <3>3. QED
      BY <3>1, <3>2
  <2>6. QED
    BY <2>1, <2>2, <2>3, <2>4, <2>5 DEF ClientStep
<1>5. QED
  BY <1>1, <1>4, Run_touches

\* What sync() writes back, and what it writes.
LEMMA GotRun ==
  ASSUME TypeOK, NEW t \in Tasks
  PROVE  Got(t).lastRun = model[t].lastRun
<1> DEFINE m == model[t]
           e == row[t].enabled
           c == row[t].changed
           n == row[t].rev
<1>1. m \in ModelType /\ m = model[t]
  BY DEF TypeOK
<1>2. Got(t) = [m EXCEPT !.enabled = e, !.changed = c, !.rev = n]
  BY Zenon DEF Got
<1> HIDE DEF m, e, c, n
<1>3. Got(t).lastRun = m.lastRun
  BY <1>1, <1>2 DEF ModelType
<1>4. QED
  BY <1>1, <1>3

\* sync() skips no run but of a row that is gone, and what it takes off _dirty is
\* in the rows.
LEMMA Run_sync ==
  ASSUME TypeOK, AbsentOff, FirstKeys, RunInv, SyncFails => ret # "down",
         \/ \E t \in Tasks : SyncGet(t)
         \/ SyncPut \/ SyncRaises \/ SyncFails \/ SyncDone
  PROVE  RunInv'
<1> USE DEF dbVars, clientVars, heapVars, pollVars, history, dbUnchangedBySync
<1>1. ASSUME NEW t \in Tasks, SyncGet(t) PROVE RunInv'
  <2>1. /\ pc = "sync" /\ t \in left /\ left' = left \ {t}
        /\ \/ /\ pc' = "put" /\ cur' = t /\ obj' = Got(t)
              /\ t \in Scheduled /\ row[t].pk = model[t].pk
           \/ pc' = pc /\ ~(t \in Scheduled /\ row[t].pk = model[t].pk)
        /\ UNCHANGED <<now, row, model, dirty, ret, saved, popped, sentAt>>
    BY <1>1, Zenon DEF SyncGet, Got
  <2>2. /\ Scheduled' = Scheduled /\ Popped' = Popped /\ pc' # "down"
    BY <2>1 DEF Scheduled, Popped, Syncing
  <2>3. \A u \in Tasks : /\ ModelRemembers(u)' = ModelRemembers(u)
                         /\ RowRemembers(u)' = RowRemembers(u)
    BY <2>1 DEF ModelRemembers, RowRemembers, After
  <2>4. ASSUME ~(t \in Scheduled /\ row[t].pk = model[t].pk)
        PROVE  RowRemembers(t)
    <3>1. CASE t \notin Scheduled
      BY <3>1, Zenon DEF RunInv
    <3>2. CASE t \in Scheduled
      <4>1. row[t].pk = 0
        BY <2>4, <3>2 DEF FirstKeys, Scheduled
      <4>2. QED
        BY <4>1, Zenon DEF RowRemembers, AbsentOff
    <3>3. QED
      BY <3>1, <3>2
  <2>5. ASSUME NEW u \in Tasks
        PROVE  RowRemembers(u)' \/ Saving(u)'
    <3>1. RowRemembers(u) \/ u \in left
      BY <2>1, "sync" # "put", Zenon DEF RunInv, Saving
    <3>2. CASE u # t
      BY <2>1, <2>3, <3>1, <3>2 DEF Saving
    <3>3. CASE u = t
      BY <2>1, <2>3, <2>4, <3>3 DEF Saving
    <3>4. QED
      BY <3>2, <3>3
  <2>6. ASSUME NEW u \in Tasks
        PROVE  /\ u \in saved' => RowRemembers(u)'
               /\ ModelRemembers(u)'
               /\ RowRemembers(u)' \/ u \in dirty' \cap Scheduled'
               /\ sentAt'[u] <= now'
    BY <2>1, <2>2, <2>3, Zenon DEF RunInv
  <2>7. ASSUME pc' = "put" /\ obj'.enabled
        PROVE  After(cur, obj.lastRun)' /\ (~model'[cur'].enabled => sentAt'[cur'] = 0)
    <3>1. /\ cur' = t /\ obj' = Got(t) /\ t \in Scheduled
      BY <2>1, <2>7
    <3>2. row[t].enabled /\ obj'.lastRun = model[t].lastRun
      BY <2>7, <3>1, GotFields, GotRun
    <3>3. model[t].pk # 0
      BY <3>1 DEF Scheduled
    <3>4. ModelRemembers(t)
      BY DEF RunInv
    <3>5. CASE model[t].enabled
      BY <2>1, <3>1, <3>2, <3>4, <3>5 DEF ModelRemembers, After
    <3>6. CASE ~model[t].enabled
      BY <2>1, <3>1, <3>2, <3>3, <3>4, <3>6 DEF ModelRemembers, After
    <3>7. QED
      BY <3>5, <3>6
  <2>8. Popped' => model'[popped'].enabled
    BY <2>1, <2>2, Zenon DEF RunInv
  <2>9. QED
    BY <2>2, <2>5, <2>6, <2>7, <2>8, Zenon DEF RunInv
<1>2. CASE SyncPut
  <2>1. /\ pc = "put" /\ pc' = "sync" /\ row' = [row EXCEPT ![cur] = Written(obj)]
        /\ saved' = saved \cup {cur}
        /\ UNCHANGED <<now, model, dirty, ret, left, popped, sentAt>>
    BY <1>2, Zenon DEF SyncPut
  <2>2. PICK c \in Tasks : c = cur
    BY <2>1 DEF TypeOK
  <2>3. row'[c] = Written(obj) /\ \A u \in Tasks \ {c} : row'[u] = row[u]
    BY <2>1, <2>2 DEF TypeOK
  <2>4. /\ Written(obj).enabled = obj.enabled
        /\ obj.enabled => Written(obj).lastRun = obj.lastRun
    BY Zenon DEF Written
  <2>5. obj.enabled => After(c, obj.lastRun) /\ (~model[c].enabled => sentAt[c] = 0)
    BY <2>1, <2>2, Zenon DEF RunInv
  <2>6. RowRemembers(c)' /\ ModelRemembers(c)'
    <3>1. ModelRemembers(c)
      BY DEF RunInv
    <3>2. RowRemembers(c)'
      BY <2>1, <2>3, <2>4, <2>5 DEF RowRemembers, After
    <3>3. ModelRemembers(c)'
      BY <2>1, <2>3, <2>4, <2>5, <3>1 DEF ModelRemembers, After
    <3>4. QED
      BY <3>2, <3>3
  <2>7. \A u \in Tasks \ {c} : /\ ModelRemembers(u)' = ModelRemembers(u)
                               /\ RowRemembers(u)' = RowRemembers(u)
    BY <2>1, <2>3 DEF ModelRemembers, RowRemembers, After
  <2>8. /\ Scheduled' = Scheduled /\ Popped' = Popped /\ pc' # "down" /\ pc' # "put"
    BY <2>1 DEF Scheduled, Popped, Syncing
  <2>9. ASSUME NEW u \in Tasks
        PROVE  /\ RowRemembers(u)' \/ Saving(u)'
               /\ u \in saved' => RowRemembers(u)'
    <3>1. CASE u = c
      BY <2>6, <3>1
    <3>2. CASE u # c
      <4>1. RowRemembers(u) \/ Saving(u)
        BY <2>1, Zenon DEF RunInv
      <4>2. Saving(u) => Saving(u)'
        BY <2>1, <2>2, <3>2 DEF Saving
      <4>3. u \in saved' => u \in saved
        BY <2>1, <2>2, <3>2
      <4>4. u \in saved => RowRemembers(u)
        BY <2>1, Zenon DEF RunInv
      <4>5. RowRemembers(u)' = RowRemembers(u)
        BY <2>7, <3>2
      <4>6. QED
        BY <4>1, <4>2, <4>3, <4>4, <4>5
    <3>3. QED
      BY <3>1, <3>2
  <2>10. ASSUME NEW u \in Tasks
         PROVE  /\ ModelRemembers(u)'
                /\ RowRemembers(u)' \/ u \in dirty' \cap Scheduled'
                /\ sentAt'[u] <= now'
    <3>1. /\ ModelRemembers(u) /\ sentAt'[u] <= now'
          /\ RowRemembers(u) \/ u \in dirty' \cap Scheduled'
      BY <2>1, <2>8, Zenon DEF RunInv
    <3>2. CASE u = c
      BY <2>6, <3>1, <3>2
    <3>3. CASE u # c
      BY <2>7, <3>1, <3>3
    <3>4. QED
      BY <3>2, <3>3
  <2>11. Popped' => model'[popped'].enabled
    BY <2>1, <2>8, Zenon DEF RunInv
  <2>12. QED
    BY <2>8, <2>9, <2>10, <2>11, Zenon DEF RunInv
<1>3. CASE SyncRaises
  <2>1. pc = "put" /\ row[cur].pk \notin {0, obj.pk}
    BY <1>3 DEF SyncRaises
  <2>2. QED
    BY <2>1 DEF FirstKeys, TypeOK
<1>4. CASE SyncFails \/ SyncDone
  <2>1. /\ pc \in {"sync", "put"} /\ pc' = ret /\ dirty' = dirty \ saved
        /\ UNCHANGED <<now, row, model, popped, sentAt, ret>>
    BY <1>4, Zenon DEF SyncFails, SyncDone, EndSync
  <2>2. pc' \notin {"sync", "put", "sent"} /\ (pc' = "push" => ret = "push")
    BY <2>1 DEF TypeOK
  <2>3. /\ Scheduled' = Scheduled /\ (Popped' => Popped)
    BY <2>1, <2>2 DEF Scheduled, Popped, Syncing
  <2>4. \A u \in Tasks : /\ ModelRemembers(u)' = ModelRemembers(u)
                         /\ RowRemembers(u)' = RowRemembers(u)
    BY <2>1 DEF ModelRemembers, RowRemembers, After
  <2>5. ASSUME NEW u \in Tasks
        PROVE  /\ ModelRemembers(u)'
               /\ RowRemembers(u)' \/ u \in dirty' \cap Scheduled'
               /\ sentAt'[u] <= now'
    <3>1. /\ ModelRemembers(u) /\ sentAt'[u] <= now'
          /\ RowRemembers(u) \/ u \in dirty \cap Scheduled
          /\ u \in saved => RowRemembers(u)
      BY <2>1, Zenon DEF RunInv
    <3>2. RowRemembers(u) \/ u \in dirty' \cap Scheduled'
      BY <2>1, <2>3, <3>1
    <3>3. QED
      BY <2>4, <3>1, <3>2
  <2>6. ASSUME pc' = "down", NEW u \in Tasks PROVE RowRemembers(u)'
    <3>1. SyncDone
      BY <1>4, <2>1, <2>6
    <3>2. pc = "sync" /\ left = {}
      BY <3>1 DEF SyncDone
    <3>3. ~Saving(u)
      BY <3>2 DEF Saving
    <3>4. QED
      BY <2>1, <2>4, <3>3, Zenon DEF RunInv
  <2>7. Popped' => model'[popped'].enabled
    BY <2>1, <2>3, Zenon DEF RunInv
  <2>8. QED
    BY <2>2, <2>5, <2>6, <2>7, Zenon DEF RunInv
<1>5. QED
  BY <1>1, <1>2, <1>3, <1>4

\* The last_run_at and the count of an instance that a reload makes: those beat
\* had in memory, when the entry is dirty, or the row's.
LEMMA LoadRuns ==
  ASSUME TypeOK, Load, NEW t \in Tasks, row[t].pk # 0, row[t].enabled
  PROVE  IF t \in dirty \cap Scheduled
         THEN model'[t].lastRun = model[t].lastRun /\ model'[t].count = model[t].count
         ELSE row[t].lastRun # 0 => model'[t].lastRun = row[t].lastRun
<1> DEFINE fresh == {u \in Tasks : row[u].pk # 0 /\ row[u].enabled}
           kept == dirty \cap fresh \cap Scheduled
           m == Fresh(t)
           i == model[t].lastRun
           n == model[t].count
           e == model[t].noChanges
           Kept == [m EXCEPT !.lastRun = i, !.count = n, !.noChanges = e]
<1>1. model'[t] = IF t \notin fresh THEN NoModel
                  ELSE IF t \notin kept THEN m ELSE Kept
  BY Zenon DEF Load
<1>2. t \in fresh /\ (t \in kept <=> t \in dirty \cap Scheduled)
  OBVIOUS
<1>3. m \in ModelType
  BY FreshType DEF TypeOK
<1>4. row[t].lastRun # 0 => m.lastRun = row[t].lastRun
  BY DEF Fresh
<1> HIDE DEF m, i, n, e
<1>5. Kept.lastRun = i /\ Kept.count = n
  BY <1>3 DEF ModelType
<1> HIDE DEF fresh, kept, Kept
<1>6. CASE t \in kept
  BY <1>1, <1>2, <1>5, <1>6 DEF i, n
<1>7. CASE t \notin kept
  BY <1>1, <1>2, <1>4, <1>7
<1>8. QED
  BY <1>6, <1>7

\* A reload remembers what the rows or _dirty remember.
LEMMA Run_load ==
  ASSUME TypeOK, AbsentOff, RunInv, Load
  PROVE  /\ RunInv'
         /\ \A t \in Scheduled' : After(t, scheduleRun[t])'
<1>1. /\ UNCHANGED <<now, row, dirty, sentAt>>
      /\ pc' \in {"idle", "access", "run", "populate"}
      /\ scheduleRun' = [t \in Tasks |-> model'[t].lastRun]
  BY DEF Load, Continue, InSetup, dbVars, memoryVars
<1>2. ASSUME NEW t \in Tasks
      PROVE  /\ model'[t].enabled <=> row[t].enabled
             /\ model'[t].pk # 0 <=> row[t].enabled
  <2>1. Agree(t)' /\ (row[t].enabled => row[t].pk # 0)
    BY LoadAgrees DEF AbsentOff
  <2>2. model'[t].pk # 0 <=> row[t].pk # 0 /\ row[t].enabled
    BY LoadType
  <2>3. QED
    BY <1>1, <2>1, <2>2, Zenon DEF Agree
<1>3. ASSUME NEW t \in Tasks, row[t].enabled
      PROVE  After(t, model[t].lastRun)'
  <2>1. row[t].pk # 0
    BY <1>3 DEF AbsentOff
  <2>2. CASE t \in dirty \cap Scheduled
    <3>1. model'[t].lastRun = model[t].lastRun /\ model[t].pk # 0
      BY <1>3, <2>1, <2>2, LoadRuns DEF Scheduled
    <3>2. ModelRemembers(t)
      BY DEF RunInv
    <3>3. CASE model[t].enabled
      BY <1>1, <3>1, <3>2, <3>3 DEF ModelRemembers, After
    <3>4. CASE ~model[t].enabled
      BY <1>1, <1>3, <3>1, <3>2, <3>4 DEF ModelRemembers, After
    <3>5. QED
      BY <3>3, <3>4
  <2>3. CASE t \notin dirty \cap Scheduled
    <3>1. row[t].lastRun # 0 => model'[t].lastRun = row[t].lastRun
      BY <1>3, <2>1, <2>3, LoadRuns
    <3>2. RowRemembers(t)
      BY <2>3, Zenon DEF RunInv
    <3>3. After(t, row[t].lastRun)
      BY <1>3, <3>2, Zenon DEF RowRemembers
    <3>4. sentAt[t] \in Nat
      BY DEF TypeOK
    <3>5. QED
      BY <1>1, <3>1, <3>3, <3>4 DEF After
  <2>4. QED
    BY <2>2, <2>3
<1>4. ASSUME NEW t \in Tasks
      PROVE  /\ ModelRemembers(t)'
             /\ RowRemembers(t)' \/ t \in dirty' \cap Scheduled'
             /\ sentAt'[t] <= now'
  <2>1. ModelRemembers(t)'
    BY <1>1, <1>2, <1>3, Zenon DEF ModelRemembers
  <2>2. RowRemembers(t)' = RowRemembers(t)
    BY <1>1 DEF RowRemembers, After
  <2>3. CASE row[t].enabled
    <3>1. t \in Scheduled'
      BY <1>2, <2>3 DEF Scheduled
    <3>2. QED
      BY <1>1, <2>1, <2>2, <3>1, Zenon DEF RunInv
  <2>4. CASE ~row[t].enabled
    BY <1>1, <2>1, <2>2, <2>4, Zenon DEF RunInv, RowRemembers
  <2>5. QED
    BY <2>3, <2>4
<1>5. /\ pc' \notin {"sync", "put"} /\ pc' # "put" /\ pc' # "down"
      /\ ~Popped'
  BY <1>1 DEF Popped, Syncing
<1>6. RunInv'
  BY <1>4, <1>5, Zenon DEF RunInv
<1>7. ASSUME NEW t \in Scheduled' PROVE After(t, scheduleRun[t])'
  <2>1. t \in Tasks /\ model'[t].pk # 0
    BY DEF Scheduled
  <2>2. After(t, model[t].lastRun)'
    BY <1>2, <1>3, <2>1
  <2>3. scheduleRun'[t] = model'[t].lastRun
    BY <1>1, <2>1
  <2>4. QED
    BY <2>2, <2>3 DEF After
<1>8. QED
  BY <1>6, <1>7

\* is_due() ends a task in its row and its instance, or changes neither.
LEMMA Run_check ==
  ASSUME TypeOK, RunInv, NEW t \in Tasks, PopulateEntry(t) \/ RunNotDue(t)
  PROVE  RunInv'
<1>1. PICK run : Check(t, run)
  BY Zenon DEF PopulateEntry, RunNotDue
<1>2. /\ UNCHANGED <<now, dirty, sentAt>>
      /\ pc' \in {"populate", "idle"}
  BY Zenon DEF PopulateEntry, RunNotDue
<1>3. \/ row' = row /\ model' = model
      \/ /\ ~row'[t].enabled /\ ~model'[t].enabled
         /\ \A u \in Tasks \ {t} : row'[u] = row[u] /\ model'[u] = model[u]
  BY <1>1, CheckDisables
<1>4. Scheduled' = Scheduled
  BY <1>1, CheckKeepsKeys, SameKeys DEF Check
<1>5. /\ pc' \notin {"sync", "put"} /\ pc' # "put" /\ pc' # "down"
      /\ ~Popped'
  BY <1>2 DEF Popped, Syncing
<1>6. ASSUME NEW u \in Tasks
      PROVE  /\ ModelRemembers(u) => ModelRemembers(u)'
             /\ RowRemembers(u) => RowRemembers(u)'
  <2>1. CASE row'[u] = row[u] /\ model'[u] = model[u]
    BY <1>2, <2>1 DEF ModelRemembers, RowRemembers, After
  <2>2. CASE ~row'[u].enabled /\ ~model'[u].enabled
    BY <2>2, Zenon DEF ModelRemembers, RowRemembers
  <2>3. QED
    BY <1>3, <2>1, <2>2
<1>7. ASSUME NEW u \in Tasks
      PROVE  /\ ModelRemembers(u)'
             /\ RowRemembers(u)' \/ u \in dirty' \cap Scheduled'
             /\ sentAt'[u] <= now'
  BY <1>2, <1>4, <1>6, Zenon DEF RunInv
<1>8. QED
  BY <1>5, <1>7, Zenon DEF RunInv

\* When is_due() raises, the row of the task it could not end is gone.
LEMMA Run_raises ==
  ASSUME "save" \notin FaultKinds, TypeOK, AbsentOff, FirstKeys, RunInv,
         NEW t \in Tasks, PopulateRaises(t) \/ RunRaises(t)
  PROVE  RunInv'
<1>1. PICK run : CheckRaises(t, run)
  BY Zenon DEF PopulateRaises, RunRaises
<1>2. /\ model' = [model EXCEPT ![t] = Checked(t, run)] /\ pc' = "closing"
      /\ UNCHANGED <<now, row, dirty, sentAt>>
  BY <1>1, Zenon DEF CheckRaises, dbVars, history
<1>3. Checked(t, run).enabled = FALSE \/ Checked(t, run) = model[t]
  BY CheckedType DEF TypeOK
<1>4. model' = model \/ ~row[t].enabled
  <2>1. CASE Verdict(t, run) = "broken"
    <3>1. Checked(t, run) = model[t]
      BY <2>1 DEF Checked
    <3>2. QED
      BY <1>2, <3>1 DEF TypeOK
  <2>2. CASE Verdict(t, run) = "expired" /\ row[t].pk \notin {0, model[t].pk}
    <3>1. model[t].enabled
      BY <2>2 DEF Verdict
    <3>2. QED
      BY <2>2, <3>1 DEF FirstKeys, AbsentOff
  <2>3. CASE Verdict(t, run) = "spent" /\ row[t].pk # model[t].pk
    <3>1. model[t].enabled
      BY <2>3 DEF Verdict
    <3>2. QED
      BY <2>3, <3>1 DEF FirstKeys, AbsentOff
  <2>4. ~Fault("save")
    BY DEF Fault
  <2>5. QED
    BY <1>1, <2>1, <2>2, <2>3, <2>4, Zenon DEF CheckRaises
<1>5. Scheduled' = Scheduled
  BY <1>2, CheckKeepsKeys, SameKeys
<1>6. /\ pc' \notin {"sync", "put"} /\ pc' # "put" /\ pc' # "down"
      /\ ~Popped'
  BY <1>2 DEF Popped, Syncing
<1>7. ASSUME NEW u \in Tasks
      PROVE  /\ ModelRemembers(u) => ModelRemembers(u)'
             /\ RowRemembers(u)' = RowRemembers(u)
  <2>1. RowRemembers(u)' = RowRemembers(u)
    BY <1>2 DEF RowRemembers, After
  <2>2. CASE model'[u] = model[u]
    BY <1>2, <2>1, <2>2 DEF ModelRemembers, After
  <2>3. CASE model'[u] # model[u]
    <3>1. u = t /\ model'[u] = Checked(t, run)
      BY <1>2, <2>3 DEF TypeOK
    <3>2. ~model'[u].enabled /\ ~row'[u].enabled
      BY <1>2, <1>3, <1>4, <2>3, <3>1
    <3>3. QED
      BY <2>1, <3>2, Zenon DEF ModelRemembers
  <2>4. QED
    BY <2>2, <2>3
<1>8. ASSUME NEW u \in Tasks
      PROVE  /\ ModelRemembers(u)'
             /\ RowRemembers(u)' \/ u \in dirty' \cap Scheduled'
             /\ sentAt'[u] <= now'
  BY <1>2, <1>5, <1>7, Zenon DEF RunInv
<1>9. QED
  BY <1>6, <1>8, Zenon DEF RunInv

\* What reserve() does to the instance.
LEMMA ReserveRuns ==
  ASSUME TypeOK, NEW t \in Tasks, Reserve(t)
  PROVE  /\ model'[t].lastRun = now /\ (model'[t].enabled <=> model[t].enabled)
         /\ model'[t].count = model[t].count + 1 /\ model'[t].noChanges
         /\ \A u \in Tasks : model'[u].pk = model[u].pk
         /\ \A u \in Tasks \ {t} : model'[u] = model[u]
<1> DEFINE m == model[t]
           n == model[t].count + 1
           r == [m EXCEPT !.lastRun = now, !.count = n, !.noChanges = TRUE]
<1>1. m \in ModelType /\ n \in Nat /\ now \in Int /\ TRUE \in BOOLEAN
  BY DEF TypeOK, ModelType
<1>2. model' = [model EXCEPT ![t] = r] /\ m = model[t]
  BY Zenon DEF Reserve
<1> HIDE DEF n
<1>3. r.lastRun = now /\ r.count = n /\ r.noChanges = TRUE
  BY <1>1 DEF ModelType
<1> HIDE DEF m
<1>4. r.pk = m.pk /\ (r.enabled <=> m.enabled)
  BY <1>1, RunFields
<1> HIDE DEF r
<1>5. model'[t] = r /\ \A u \in Tasks \ {t} : model'[u] = model[u]
  BY <1>2 DEF TypeOK
<1>6. QED
  BY <1>2, <1>3, <1>4, <1>5 DEF n

\* reserve() moves the instance to the time of the run, and marks it dirty.
LEMMA Run_due ==
  ASSUME TypeOK, HeapInv, RunInv, NEW t \in Tasks, RunDue(t)
  PROVE  RunInv'
<1>1. /\ Reserve(t) /\ dirty' = dirty \cup {t} /\ popped' = t
      /\ pc = "run" /\ pc' = "sent" /\ t \in heap
      /\ UNCHANGED <<now, row>>
      /\ sentAt' = [sentAt EXCEPT ![t] = now] \/ sentAt' = sentAt
      /\ Verdict(t, heapRun[t]) = "due"
  BY Zenon DEF RunDue, Reserve, Top, dbVars
<1>2. /\ model'[t].lastRun = now /\ (model'[t].enabled <=> model[t].enabled)
      /\ \A u \in Tasks : model'[u].pk = model[u].pk
      /\ \A u \in Tasks \ {t} : model'[u] = model[u]
  BY <1>1, ReserveRuns
<1>3. model[t].enabled
  BY <1>1 DEF Verdict
<1>4. Scheduled' = Scheduled /\ t \in Scheduled
  BY <1>1, <1>2, SameKeys DEF HeapInv
<1>5. \A u \in Tasks : sentAt'[u] <= now'
  BY <1>1 DEF RunInv, TypeOK
<1>6. \A u \in Tasks \ {t} : sentAt'[u] = sentAt[u]
  BY <1>1 DEF TypeOK
<1>7. ASSUME NEW u \in Tasks
      PROVE  /\ ModelRemembers(u)'
             /\ RowRemembers(u)' \/ u \in dirty' \cap Scheduled'
  <2>1. CASE u = t
    <3>1. After(t, model[t].lastRun)'
      BY <1>1, <1>2, <1>5 DEF After
    <3>2. QED
      BY <1>1, <1>2, <1>3, <1>4, <2>1, <3>1 DEF ModelRemembers
  <2>2. CASE u # t
    <3>1. row'[u] = row[u] /\ model'[u] = model[u] /\ sentAt'[u] = sentAt[u]
      BY <1>1, <1>2, <1>6, <2>2
    <3>2. ModelRemembers(u)' = ModelRemembers(u) /\ RowRemembers(u)' = RowRemembers(u)
      BY <3>1 DEF ModelRemembers, RowRemembers, After
    <3>3. u \in dirty => u \in dirty'
      BY <1>1
    <3>4. QED
      BY <1>4, <3>2, <3>3, Zenon DEF RunInv
  <2>3. QED
    BY <2>1, <2>2
<1>8. /\ pc' \notin {"sync", "put"} /\ pc' # "put" /\ pc' # "down"
      /\ model'[popped'].enabled
  BY <1>1, <1>2, <1>3
<1>9. QED
  BY <1>5, <1>7, <1>8, Zenon DEF RunInv

\* Every step but a kill, a failed save and a last sync() cut short by the
\* database keeps the runs.
LEMMA Run_next ==
  ASSUME "kill" \notin FaultKinds, "save" \notin FaultKinds
  PROVE  TypeOK /\ HeapInv /\ AgreeInv /\ FirstKeys /\ RunInv /\ [Next]_vars
         /\ (SyncFails => ret # "down") => RunInv'
<1> SUFFICES ASSUME TypeOK, HeapInv, AgreeInv, FirstKeys, RunInv, [Next]_vars,
                    SyncFails => ret # "down"
             PROVE  RunInv'
  OBVIOUS
<1> USE DEF dbVars, clientVars, memoryVars, syncVars, history
<1>1. AbsentOff
  BY DEF AgreeInv
<1>2. CASE Access \/ PollFails
  <2>1. PICK changed : Decide(changed) /\ UNCHANGED <<now, row, model, dirty, sentAt, popped>>
    BY <1>2, Zenon DEF Access, PollFails
  <2>2. CASE changed \/ now - lastFullSync >= SyncMax
    <3>1. BeginSync("load")
      BY <2>1, <2>2, Zenon DEF Decide
    <3>2. pc' = "sync" /\ left' = dirty /\ saved' = {} /\ ~Popped'
      BY <3>1 DEF BeginSync, Popped, Syncing
    <3>3. QED
      BY <2>1, <3>2, Run_begins
  <2>3. CASE ~(changed \/ now - lastFullSync >= SyncMax)
    <3>1. Continue(heapInvalidated, Scheduled)
      BY <2>1, <2>3, Zenon DEF Decide
    <3>2. pc' \in {"access", "run", "populate", "idle"}
      BY <3>1 DEF Continue, InSetup
    <3>3. pc' \notin {"sync", "put", "down"} /\ ~Popped'
      BY <3>2 DEF Popped, Syncing
    <3>4. QED
      BY <2>1, <3>3, Run_quiet
  <2>4. QED
    BY <2>2, <2>3
<1>3. CASE SyncAfterSend \/ ServiceSync \/ Close
  <2>1. /\ UNCHANGED <<now, row, model, dirty, sentAt, popped>>
        /\ pc' = "sync" /\ left' = dirty /\ saved' = {}
        /\ ret' = "push" => pc = "sent"
    BY <1>3 DEF SyncAfterSend, ServiceSync, Close, BeginSync
  <2>2. Popped' => Popped
    BY <2>1 DEF Popped, Syncing
  <2>3. QED
    BY <2>1, <2>2, Run_begins
<1>4. CASE StartTick \/ PopulateDone \/ RunNothing \/ Push \/ Stop \/ LoadFails
  <2>1. /\ UNCHANGED <<now, row, model, dirty, sentAt>>
        /\ pc' \in {"access", "run", "idle", "closing"}
    BY <1>4 DEF StartTick, PopulateDone, RunNothing, Push, Stop, LoadFails
  <2>2. pc' \notin {"sync", "put", "down"} /\ ~Popped'
    BY <2>1 DEF Popped, Syncing
  <2>3. QED
    BY <2>1, <2>2, Run_quiet
<1>5. CASE Kill
  BY <1>5 DEF Kill, Fault
<1>6. CASE Restart
  <2>1. /\ pc = "down" /\ pc' = "load"
        /\ model' = [t \in Tasks |-> NoModel]
        /\ UNCHANGED <<now, row, sentAt>>
    BY <1>6, Zenon DEF Restart
  <2>2. NoModel.pk = 0 /\ ~NoModel.enabled
    BY DEF NoModel
  <2>3. ASSUME NEW t \in Tasks
        PROVE  ModelRemembers(t)' /\ RowRemembers(t)' /\ sentAt'[t] <= now'
    <3>1. model'[t].pk = 0 /\ ~model'[t].enabled
      BY <2>1, <2>2
    <3>2. RowRemembers(t) /\ RowRemembers(t)' = RowRemembers(t)
      BY <2>1 DEF RunInv, RowRemembers, After
    <3>3. sentAt'[t] <= now'
      BY <2>1 DEF RunInv
    <3>4. QED
      BY <3>1, <3>2, <3>3, Zenon DEF ModelRemembers
  <2>4. /\ pc' \notin {"sync", "put"} /\ pc' # "put" /\ pc' # "down"
        /\ ~Popped'
    BY <2>1 DEF Popped, Syncing
  <2>5. QED
    BY <2>3, <2>4, Zenon DEF RunInv
<1>7. CASE UNCHANGED vars
  <2>1. /\ UNCHANGED <<row, model, dirty, pc, ret, left, saved, cur, obj, popped, sentAt>>
        /\ now' = now
    BY <1>7, Zenon DEF vars, dbVars, memoryVars, syncVars, history
  <2>2. QED
    BY <2>1, Run_touches
<1>8. QED
  BY <1>1, <1>2, <1>3, <1>4, <1>5, <1>6, <1>7, Run_client, Run_sync, Run_load,
     Run_check, Run_raises, Run_due DEF Next, BeatStep

-----------------------------------------------------------------------------
(* The heap.  A reload in the middle of a tick() leaves _heap_invalidated  *)
(* set, and the next tick() then fills the heap from entries of _schedule  *)
(* that are older than the runs since; without one the heap is only filled *)
(* in the tick() that follows the reloads.                                 *)

\* The accesses of setup_schedule() and the first one of a tick() are the only
\* ones that read the table.
NoReloadInTick == pc = "load" => at \in {"boot", "defaults", "entries", "cond"}

\* There is no heap, or an empty one that the next tick() is going to fill.
Unfilled == heapNone \/ heapInvalidated

\* tick() is about to fill the heap from _schedule.
Filling == Unfilled \/ (pc = "access" /\ at \in {"copy", "fill"})

HeapRuns ==
  /\ heapInvalidated => heap = {} /\ ~heapNone
  /\ \A t \in heap : After(t, heapRun[t])
  /\ Filling => \A t \in Scheduled : After(t, scheduleRun[t])
  /\ pc = "populate" => \A t \in left : After(t, scheduleRun[t])
  /\ Unfilled => pc \notin {"populate", "run"} /\ ~Popped
                 /\ ~(pc = "access" /\ at = "fill")
  /\ pc = "access" /\ at = "cond" => ~heapNone
  /\ pc = "access" /\ at = "copy" => ~heapInvalidated

\* A step that fills no heap and runs nothing.
LEMMA HeapRuns_quiet ==
  ASSUME HeapRuns, UNCHANGED <<scheduleRun, heap, heapRun, heapNone, heapInvalidated>>,
         Scheduled' = Scheduled,
         \A t \in Tasks : sentAt'[t] \in {0, sentAt[t]},
         heap \subseteq Tasks, left \subseteq Tasks,
         pc' = "populate" => pc = "populate" /\ left' \subseteq left,
         pc' = "run" => pc \in {"populate", "run"},
         Popped' => Popped,
         pc' = "access" => \/ pc = "access" /\ at' = at
                           \/ at' = IF heapNone THEN "copy" ELSE "cond"
  PROVE  HeapRuns'
<1>1. /\ \A t \in Tasks : /\ After(t, heapRun[t]) => After(t, heapRun[t])'
                          /\ After(t, scheduleRun[t]) => After(t, scheduleRun[t])'
      /\ Scheduled \subseteq Tasks
  BY DEF After, Scheduled
<1>2. Unfilled' = Unfilled /\ (Filling' => Filling)
  BY Zenon DEF Unfilled, Filling, HeapRuns
<1>3. /\ heapInvalidated' => heap' = {} /\ ~heapNone'
      /\ \A t \in heap' : After(t, heapRun[t])'
  BY <1>1 DEF HeapRuns
<1>4. Filling' => \A t \in Scheduled' : After(t, scheduleRun[t])'
  BY <1>1, <1>2 DEF HeapRuns
<1>5. pc' = "populate" => \A t \in left' : After(t, scheduleRun[t])'
  BY <1>1 DEF HeapRuns
<1>6. Unfilled' => /\ pc' \notin {"populate", "run"} /\ ~Popped'
                   /\ ~(pc' = "access" /\ at' = "fill")
  BY <1>2 DEF HeapRuns
<1>7. /\ pc' = "access" /\ at' = "cond" => ~heapNone'
      /\ pc' = "access" /\ at' = "copy" => ~heapInvalidated'
  BY DEF HeapRuns
<1>8. QED
  BY <1>3, <1>4, <1>5, <1>6, <1>7, Zenon DEF HeapRuns

\* sync(), the client and the clock leave the heap and the schedule alone.
LEMMA HeapRuns_outside ==
  ASSUME TypeOK, HeapRuns,
         \/ Tick \/ ClientStep \/ UNCHANGED vars
         \/ \E t \in Tasks : SyncGet(t)
         \/ SyncPut \/ SyncRaises \/ SyncFails \/ SyncDone
  PROVE  HeapRuns'
<1> USE DEF dbVars, clientVars, memoryVars, heapVars, pollVars, syncVars, history
<1>1. heap \subseteq Tasks /\ left \subseteq Tasks
  BY DEF TypeOK
<1>2. ASSUME Tick \/ ClientStep \/ UNCHANGED vars PROVE HeapRuns'
  <2>1. /\ UNCHANGED <<model, scheduleRun, heap, heapRun, heapNone, heapInvalidated,
                       pc, at, ret, left>>
        /\ UNCHANGED sentAt \/ \E S \in SUBSET Tasks : ClientTouches(S)
    <3>1. UNCHANGED <<model, scheduleRun, heap, heapRun, heapNone, heapInvalidated,
                      pc, at, ret, left>>
      BY <1>2 DEF Tick, ClientStep, ClientGets, ClientCreates, ClientDeletes,
           ClientUpdates, ClientSaves, ClientWrites, ClientPosts, beatUnchanged, vars
    <3>2. CASE Tick \/ ClientSaves \/ ClientPosts \/ UNCHANGED vars
      BY <3>1, <3>2, Zenon DEF Tick, ClientSaves, ClientPosts, vars
    <3>3. ASSUME NEW t \in Tasks, ClientGets(t) \/ ClientCreates(t)
          PROVE  UNCHANGED sentAt
      BY <3>3, Zenon DEF ClientGets, ClientCreates
    <3>4. ASSUME NEW t \in Tasks, ClientDeletes(t)
          PROVE  \E S \in SUBSET Tasks : ClientTouches(S)
      <4>1. ClientTouches({t}) /\ {t} \in SUBSET Tasks
        BY <3>4 DEF ClientDeletes
      <4>2. QED
        BY <4>1
    <3>5. ASSUME NEW o \in ClientOps, NEW S \in SUBSET Tasks, ClientUpdates(o, S)
          PROVE  ClientTouches(S)
      BY <3>5, Zenon DEF ClientUpdates
    <3>6. CASE ClientWrites
      <4>1. UNCHANGED sentAt \/ (cpc = "write" /\ ClientTouches({cname}))
        BY <3>6, Zenon DEF ClientWrites
      <4>2. cpc = "write" => {cname} \in SUBSET Tasks
        BY DEF TypeOK
      <4>3. QED
        BY <3>1, <4>1, <4>2, Zenon
    <3>7. QED
      BY <1>2, <3>1, <3>2, <3>3, <3>4, <3>5, <3>6, Zenon DEF ClientStep
  <2>2. \A t \in Tasks : sentAt'[t] \in {0, sentAt[t]}
    BY <2>1 DEF ClientTouches
  <2>3. Scheduled' = Scheduled /\ Popped' = Popped
    BY <2>1 DEF Scheduled, Popped, Syncing
  <2>4. QED
    BY <1>1, <2>1, <2>2, <2>3, HeapRuns_quiet
<1>3. ASSUME \/ \E t \in Tasks : SyncGet(t)
             \/ SyncPut \/ SyncRaises \/ SyncFails \/ SyncDone
      PROVE  HeapRuns'
  <2>1. /\ UNCHANGED <<model, scheduleRun, heap, heapRun, heapNone, heapInvalidated,
                       at, ret, sentAt>>
        /\ pc \in {"sync", "put"}
        /\ pc' \in {"sync", "put", "closing", ret}
    <3>1. ASSUME NEW t \in Tasks, SyncGet(t)
          PROVE  /\ UNCHANGED <<dbUnchangedBySync, ret>>
                 /\ pc = "sync" /\ pc' \in {"sync", "put"}
      BY <3>1, Zenon DEF SyncGet
    <3>2. CASE SyncPut
      BY <3>2, Zenon DEF SyncPut, dbUnchangedBySync
    <3>3. CASE SyncRaises \/ SyncFails \/ SyncDone
      BY <3>3, Zenon DEF SyncRaises, SyncFails, SyncDone, EndSync,
                         dbUnchangedBySync
    <3>4. ASSUME UNCHANGED dbUnchangedBySync
          PROVE  UNCHANGED <<model, scheduleRun, heap, heapRun, heapNone,
                             heapInvalidated, at, sentAt>>
      BY <3>4, Zenon DEF dbUnchangedBySync
    <3>5. QED
      BY <1>3, <3>1, <3>2, <3>3, <3>4, Zenon
  <2>2. ret \in {"idle", "load", "push", "exiting", "down"}
    BY DEF TypeOK
  <2>3. Scheduled' = Scheduled /\ (Popped' => Popped)
    BY <2>1, <2>2 DEF Scheduled, Popped, Syncing
  <2>4. pc' \notin {"populate", "run", "access"}
    BY <2>1, <2>2
  <2>5. QED
    BY <1>1, <2>1, <2>3, <2>4, HeapRuns_quiet
<1>4. QED
  BY <1>2, <1>3

\* An access fills the heap from entries that remember the runs.
LEMMA HeapRuns_poll ==
  ASSUME TypeOK, HeapInv, HeapRuns, Access \/ PollFails
  PROVE  HeapRuns'
<1>1. PICK changed : Decide(changed)
  BY Zenon DEF Access, PollFails
<1>2. pc = "access" /\ UNCHANGED <<model, scheduleRun, sentAt>>
  BY DEF Access, PollFails, memoryVars, history
<1>3. Scheduled' = Scheduled
  BY <1>2 DEF Scheduled
<1>4. \A t \in Tasks : After(t, scheduleRun[t])' = After(t, scheduleRun[t])
  BY <1>2 DEF After
<1>5. CASE changed \/ now - lastFullSync >= SyncMax
  <2>1. BeginSync("load") /\ UNCHANGED <<at, heapVars>>
    BY <1>1, <1>5, Zenon DEF Decide
  <2>2. /\ pc' = "sync" /\ ret' = "load"
        /\ UNCHANGED <<heap, heapRun, heapNone, heapInvalidated>>
    BY <2>1 DEF BeginSync, heapVars
  <2>3. ~Popped' /\ heap \subseteq Tasks /\ left \subseteq Tasks
    BY <2>2 DEF Popped, Syncing, TypeOK
  <2>4. \A t \in Tasks : sentAt'[t] \in {0, sentAt[t]}
    BY <1>2
  <2>5. QED
    BY <1>2, <1>3, <2>2, <2>3, <2>4, HeapRuns_quiet
<1>6. CASE ~(changed \/ now - lastFullSync >= SyncMax)
  <2>1. /\ Continue(heapInvalidated, Scheduled)
        /\ IF at = "copy" THEN EmptyHeap /\ heapNone' = FALSE
           ELSE UNCHANGED <<heap, heapRun, heapWhen, heapNone>>
    BY <1>1, <1>6, Zenon DEF Decide
  <2>2. /\ pc' \in {"access", "run", "populate", "idle"} /\ ~Popped'
        /\ heapInvalidated \in BOOLEAN
    BY <2>1 DEF Continue, InSetup, Popped, Syncing, TypeOK
  <2>3. \A t \in Scheduled : After(t, scheduleRun[t])' = After(t, scheduleRun[t])
    BY <1>4 DEF Scheduled
  <2>4. CASE at = "copy"
    <3>1. pc' = "access" /\ at' = "fill" /\ heap' = {} /\ ~heapNone'
      BY <2>1, <2>4 DEF Continue, InSetup, EmptyHeap
    <3>2. ~heapInvalidated'
      <4>1. heapInvalidated = FALSE
        BY <1>2, <2>2, <2>4, Zenon DEF HeapRuns
      <4>2. Continue(FALSE, Scheduled)
        BY <2>1, <4>1, Zenon
      <4>3. QED
        BY <2>4, <4>2, "copy" # "defaults", "copy" # "entries", Zenon
           DEF Continue, InSetup
    <3>3. \A t \in Scheduled' : After(t, scheduleRun[t])'
      BY <1>2, <1>3, <2>3, <2>4 DEF HeapRuns, Filling
    <3>4. QED
      BY <3>1, <3>2, <3>3 DEF HeapRuns, Unfilled
  <2>5. CASE at # "copy"
    <3>1. UNCHANGED <<heap, heapRun, heapNone>>
      BY <2>1, <2>5, Zenon
    <3>2. \A t \in heap' : After(t, heapRun[t])'
      BY <1>2, <3>1 DEF HeapRuns, After
    <3>3. CASE at = "cond"
      <4>1. ~heapNone /\ ~heapInvalidated'
        <5>1. heapInvalidated' = FALSE
          BY <2>1, <3>3, "cond" # "copy", "cond" # "fill", "cond" # "defaults",
             "cond" # "entries", Zenon DEF Continue, InSetup
        <5>2. QED
          BY <1>2, <3>3, <5>1, Zenon DEF HeapRuns
      <4>2. \/ pc' = "run"
            \/ heapInvalidated /\ pc' = "access" /\ at' = "copy"
        BY <2>1, <3>3, "cond" # "copy", "cond" # "fill", "cond" # "defaults",
           "cond" # "entries", Zenon DEF Continue, InSetup
      <4>3. heapInvalidated => \A t \in Scheduled' : After(t, scheduleRun[t])'
        BY <1>3, <2>3 DEF HeapRuns, Filling, Unfilled
      <4>4. ~Unfilled'
        BY <3>1, <4>1, Zenon DEF Unfilled
      <4>5. CASE pc' = "run"
        BY <3>2, <4>1, <4>4, <4>5 DEF HeapRuns, Filling
      <4>6. CASE heapInvalidated /\ pc' = "access" /\ at' = "copy"
        BY <3>2, <4>1, <4>3, <4>4, <4>6 DEF HeapRuns
      <4>7. QED
        BY <4>2, <4>5, <4>6
    <3>4. CASE at = "fill"
      <4>1. pc' = "populate" /\ left' = Scheduled /\ heapInvalidated' = heapInvalidated
        BY <2>1, <3>4, "fill" # "copy", "fill" # "cond", "fill" # "defaults",
           "fill" # "entries", Zenon DEF Continue, InSetup
      <4>2. ~Unfilled /\ \A t \in Scheduled : After(t, scheduleRun[t])
        BY <1>2, <3>4, Zenon DEF HeapRuns, Filling
      <4>3. \A t \in left' : After(t, scheduleRun[t])'
        BY <2>3, <4>1, <4>2
      <4>4. ~heapInvalidated' /\ ~heapNone'
        BY <3>1, <4>1, <4>2, Zenon DEF Unfilled
      <4>5. QED
        BY <3>2, <4>1, <4>3, <4>4 DEF HeapRuns, Filling, Unfilled
    <3>5. CASE at \in {"defaults", "entries"}
      <4>1. InSetup(heapInvalidated)
        BY <2>1, <3>5, Zenon DEF Continue
      <4>2. /\ heapInvalidated' = heapInvalidated
            /\ pc' = "idle" \/ (pc' = "access" /\ at' = "entries")
        BY <3>5, <4>1, Zenon DEF InSetup
      <4>3. Unfilled' = Unfilled
        BY <3>1, <4>2, Zenon DEF Unfilled
      <4>4. Unfilled => \A t \in Scheduled' : After(t, scheduleRun[t])'
        BY <1>3, <2>3 DEF HeapRuns, Filling
      <4>5. heapInvalidated' => heap' = {} /\ ~heapNone'
        BY <3>1, <4>2, Zenon DEF HeapRuns
      <4>6. Filling' => Unfilled
        BY <4>2, <4>3 DEF Filling
      <4>7. QED
        BY <2>2, <3>2, <4>2, <4>4, <4>5, <4>6 DEF HeapRuns
    <3>6. QED
      BY <1>2, <2>5, <3>3, <3>4, <3>5 DEF HeapInv, TypeOK
  <2>6. QED
    BY <2>4, <2>5
<1>7. QED
  BY <1>5, <1>6

\* A reload makes entries that remember the runs; in the first access of a
\* tick() it is the one that the heap is filled from.
LEMMA HeapRuns_load ==
  ASSUME TypeOK, AbsentOff, RunInv, HeapRuns, NoReloadInTick, Load
  PROVE  HeapRuns'
<1> DEFINE fresh == {t \in Tasks : row[t].pk # 0 /\ row[t].enabled}
<1>1. \A t \in Scheduled' : After(t, scheduleRun[t])'
  BY Run_load
<1>2. pc = "load" /\ at \in {"boot", "defaults", "entries", "cond"}
  BY DEF Load, NoReloadInTick
<1>3. CASE at = "boot"
  <2>1. /\ pc' = "access" /\ at' = "defaults"
        /\ UNCHANGED <<heap, heapRun, heapNone, heapInvalidated, sentAt>>
    BY <1>3 DEF Load, heapVars
  <2>2. ~Popped' /\ \A t \in heap' : After(t, heapRun[t])'
    BY <2>1 DEF HeapRuns, After, Popped, Syncing
  <2>3. heapInvalidated' => heap' = {} /\ ~heapNone'
    BY <2>1, Zenon DEF HeapRuns
  <2>4. QED
    BY <1>1, <2>1, <2>2, <2>3 DEF HeapRuns
<1>4. CASE at = "cond"
  <2>1. Continue(TRUE, fresh) /\ EmptyHeap /\ heapNone' = FALSE
    BY <1>4, "cond" # "boot", Zenon DEF Load
  <2> HIDE DEF fresh
  <2>2. ~heapInvalidated' /\ pc' = "access" /\ at' = "copy"
    BY <1>4, <2>1 DEF Continue, InSetup
  <2>3. heap' = {} /\ ~heapNone' /\ ~Popped'
    BY <2>1, <2>2 DEF EmptyHeap, Popped, Syncing
  <2>4. QED
    BY <1>1, <2>2, <2>3 DEF HeapRuns, Unfilled
<1>5. CASE at \in {"defaults", "entries"}
  <2>1. Continue(TRUE, fresh) /\ EmptyHeap /\ heapNone' = FALSE
    BY <1>5, "defaults" # "boot", "entries" # "boot", Zenon DEF Load
  <2> HIDE DEF fresh
  <2>2. pc' = "idle" \/ (pc' = "access" /\ at' = "entries")
    BY <1>5, <2>1 DEF Continue, InSetup
  <2>3. heap' = {} /\ ~heapNone' /\ ~Popped'
    BY <2>1, <2>2 DEF EmptyHeap, Popped, Syncing
  <2>4. QED
    BY <1>1, <2>2, <2>3 DEF HeapRuns
<1>6. QED
  BY <1>2, <1>3, <1>4, <1>5

\* tick() puts on the heap what remembers the last run, and runs what it takes
\* off.
LEMMA HeapRuns_run ==
  ASSUME TypeOK, HeapInv, RunInv, HeapRuns, NEW t \in Tasks,
         \/ PopulateEntry(t) \/ PopulateRaises(t)
         \/ RunNotDue(t) \/ RunRaises(t) \/ RunDue(t)
  PROVE  HeapRuns'
<1> USE DEF dbVars, clientVars, memoryVars, heapVars, pollVars, syncVars, history
<1>0. heap \subseteq Tasks /\ left \subseteq Tasks
  BY DEF TypeOK
<1>1. CASE PopulateEntry(t)
  <2>1. /\ pc = "populate" /\ pc' = "populate" /\ t \in left
        /\ heap' = heap \cup {t} /\ left' = left \ {t}
        /\ heapRun' = [heapRun EXCEPT ![t] = scheduleRun[t]]
        /\ UNCHANGED <<scheduleRun, heapNone, heapInvalidated, sentAt>>
    BY <1>1, Zenon DEF PopulateEntry
  <2>2. /\ ~heapNone /\ ~heapInvalidated /\ ~heapNone' /\ ~heapInvalidated'
        /\ ~Unfilled' /\ ~Filling' /\ ~Popped'
    BY <2>1 DEF HeapRuns, Filling, Unfilled, Popped, Syncing
  <2>3. \A u \in heap' : After(u, heapRun[u])'
    <3>1. heapRun \in [Tasks -> Int]
      BY DEF TypeOK
    <3>2. After(t, scheduleRun[t])
      BY <2>1, Zenon DEF HeapRuns
    <3>3. \A u \in heap : After(u, heapRun[u])
      BY Zenon DEF HeapRuns
    <3>4. QED
      BY <1>0, <2>1, <3>1, <3>2, <3>3 DEF After
  <2>4. \A u \in left' : After(u, scheduleRun[u])'
    BY <1>0, <2>1 DEF HeapRuns, After
  <2>5. QED
    BY <2>1, <2>2, <2>3, <2>4, Zenon DEF HeapRuns
<1>2. CASE RunNotDue(t)
  <2>1. /\ Check(t, heapRun[t]) /\ pc' = "idle"
        /\ UNCHANGED <<scheduleRun, heap, heapRun, heapNone, heapInvalidated, sentAt>>
    BY <1>2, Zenon DEF RunNotDue
  <2>2. Scheduled' = Scheduled
    BY <2>1, CheckKeepsKeys, SameKeys DEF Check
  <2>3. ~Popped' /\ \A u \in Tasks : sentAt'[u] \in {0, sentAt[u]}
    BY <2>1 DEF Popped, Syncing
  <2>4. QED
    BY <1>0, <2>1, <2>2, <2>3, HeapRuns_quiet
<1>3. CASE PopulateRaises(t) \/ RunRaises(t)
  <2>1. PICK run : CheckRaises(t, run)
    BY <1>3, Zenon DEF PopulateRaises, RunRaises
  <2>2. /\ model' = [model EXCEPT ![t] = Checked(t, run)] /\ pc' = "closing"
        /\ UNCHANGED <<scheduleRun, heap, heapRun, heapNone, heapInvalidated, sentAt>>
    BY <2>1, Zenon DEF CheckRaises
  <2>3. Scheduled' = Scheduled
    BY <2>2, CheckKeepsKeys, SameKeys
  <2>4. ~Popped' /\ \A u \in Tasks : sentAt'[u] \in {0, sentAt[u]}
    BY <2>2 DEF Popped, Syncing
  <2>5. QED
    BY <1>0, <2>2, <2>3, <2>4, HeapRuns_quiet
<1>4. CASE RunDue(t)
  <2>1. /\ pc = "run" /\ pc' = "sent" /\ heap' = heap \ {t}
        /\ heapRun' = [heapRun EXCEPT ![t] = 0]
        /\ sentAt' = [sentAt EXCEPT ![t] = now] \/ sentAt' = sentAt
        /\ UNCHANGED <<scheduleRun, heapNone, heapInvalidated>>
    BY <1>4, Zenon DEF RunDue
  <2>2. ~heapNone' /\ ~heapInvalidated' /\ ~Unfilled' /\ ~Filling'
    BY <2>1 DEF HeapRuns, Filling, Unfilled
  <2>3. \A u \in heap' : heapRun'[u] = heapRun[u] /\ sentAt'[u] = sentAt[u]
    BY <1>0, <2>1 DEF TypeOK
  <2>4. \A u \in heap' : After(u, heapRun[u])'
    BY <2>1, <2>3 DEF HeapRuns, After
  <2>5. pc' # "populate" /\ pc' # "access"
    BY <2>1
  <2>6. QED
    BY <2>1, <2>2, <2>4, <2>5, Zenon DEF HeapRuns
<1>5. QED
  BY <1>1, <1>2, <1>3, <1>4

\* The entry that tick() pushes has the time of the run.
LEMMA HeapRuns_push ==
  ASSUME TypeOK, RunInv, HeapRuns, Push
  PROVE  HeapRuns'
<1>1. /\ pc \in {"sent", "push"} /\ pc' = "idle" /\ heap' = heap \cup {popped}
      /\ heapRun' = [heapRun EXCEPT ![popped] = model[popped].lastRun]
      /\ UNCHANGED <<heapNone, heapInvalidated, sentAt>>
  BY DEF Push, history
<1>2. PICK t \in Tasks : t = popped
  BY <1>1 DEF TypeOK
<1>3. Popped /\ model[t].enabled
  BY <1>1, <1>2 DEF Popped, RunInv
<1>4. After(t, model[t].lastRun)
  BY <1>3, Zenon DEF RunInv, ModelRemembers
<1>5. \A u \in heap' : After(u, heapRun[u])'
  <2>1. heap \subseteq Tasks /\ heapRun \in [Tasks -> Int]
    BY DEF TypeOK
  <2>2. \A u \in heap : After(u, heapRun[u])
    BY Zenon DEF HeapRuns
  <2>3. QED
    BY <1>1, <1>2, <1>4, <2>1, <2>2 DEF After
<1>6. /\ ~heapNone' /\ ~heapInvalidated' /\ ~Unfilled' /\ ~Filling'
      /\ ~Popped' /\ pc' # "populate"
  BY <1>1, <1>3 DEF HeapRuns, Filling, Unfilled, Popped, Syncing
<1>7. QED
  BY <1>1, <1>5, <1>6, Zenon DEF HeapRuns

\* Every step keeps the heap's memory of the runs.
LEMMA HeapRuns_next ==
  TypeOK /\ HeapInv /\ AgreeInv /\ RunInv /\ HeapRuns /\ NoReloadInTick /\ [Next]_vars
    => HeapRuns'
<1> SUFFICES ASSUME TypeOK, HeapInv, AgreeInv, RunInv, HeapRuns, NoReloadInTick,
                    [Next]_vars
             PROVE  HeapRuns'
  OBVIOUS
<1> USE DEF memoryVars, heapVars, syncVars, history
<1>1. ASSUME \/ StartTick \/ PopulateDone \/ RunNothing \/ SyncAfterSend
             \/ ServiceSync \/ Stop \/ LoadFails \/ Close \/ Kill
      PROVE  HeapRuns'
  <2>1. UNCHANGED <<model, scheduleRun, heap, heapRun, heapNone, heapInvalidated, sentAt>>
    BY <1>1, Zenon DEF StartTick, PopulateDone, RunNothing, SyncAfterSend,
       ServiceSync, Stop, LoadFails, Close, Kill
  <2>2. /\ pc' \in {"access", "run", "idle", "sync", "closing", "down"}
        /\ pc' = "run" => pc = "populate"
        /\ pc' = "access" => at' = IF heapNone THEN "copy" ELSE "cond"
        /\ pc' = "sync" /\ ret' = "push" => pc = "sent"
    BY <1>1 DEF StartTick, PopulateDone, RunNothing, SyncAfterSend, ServiceSync,
       Stop, LoadFails, Close, Kill, BeginSync
  <2>3. (Popped' => Popped) /\ Scheduled' = Scheduled
    BY <2>1, <2>2 DEF Popped, Syncing, Scheduled
  <2>4. /\ heap \subseteq Tasks /\ left \subseteq Tasks
        /\ \A u \in Tasks : sentAt'[u] \in {0, sentAt[u]}
    BY <2>1 DEF TypeOK
  <2>5. QED
    BY <2>1, <2>2, <2>3, <2>4, HeapRuns_quiet
<1>2. CASE Restart
  <2>1. /\ pc' = "load" /\ heap' = {} /\ heapInvalidated' = FALSE
        /\ model' = [t \in Tasks |-> NoModel]
    BY <1>2, Zenon DEF Restart, EmptyHeap
  <2>2. Scheduled' = {}
    BY <2>1 DEF Scheduled, NoModel
  <2>3. ~Popped'
    BY <2>1 DEF Popped, Syncing
  <2>4. QED
    BY <2>1, <2>2, <2>3 DEF HeapRuns
<1>3. AbsentOff
  BY DEF AgreeInv
<1>4. QED
  BY <1>1, <1>2, <1>3, HeapRuns_outside, HeapRuns_poll, HeapRuns_load,
     HeapRuns_run, HeapRuns_push DEF Next, BeatStep

\* Only tick() adds to the runs of a row.
LEMMA OnlyRunDueRuns ==
  ASSUME TypeOK, [Next]_vars, NEW t \in Tasks, ran'[t] > ran[t]
  PROVE  RunDue(t)
<1> USE DEF dbVars, clientVars, memoryVars, heapVars, pollVars, syncVars, history
<1>1. ran \in [Tasks -> Nat]
  BY DEF TypeOK
<1>2. ASSUME ran' = ran PROVE FALSE
  BY <1>1, <1>2
<1>3. ASSUME NEW u \in Tasks, ran' = [ran EXCEPT ![u] = 0] PROVE FALSE
  BY <1>1, <1>3
<1>4. ASSUME Tick \/ ClientStep PROVE FALSE
  <2>1. CASE Tick \/ ClientSaves \/ ClientPosts
    BY <1>2, <2>1, Zenon DEF Tick, ClientSaves, ClientPosts
  <2>2. ASSUME NEW u \in Tasks, ClientGets(u) \/ ClientCreates(u) PROVE FALSE
    BY <1>2, <2>2, Zenon DEF ClientGets, ClientCreates
  <2>3. ASSUME NEW u \in Tasks, ClientDeletes(u) PROVE FALSE
    BY <1>3, <2>3, Zenon DEF ClientDeletes
  <2>4. ASSUME NEW o \in ClientOps, NEW S \in SUBSET Tasks, ClientUpdates(o, S)
        PROVE  FALSE
    BY <1>2, <2>4, Zenon DEF ClientUpdates
  <2>5. CASE ClientWrites
    <3>1. \/ ran' = ran
          \/ ran' = [ran EXCEPT ![cname] = IF form.pk = row[cname].pk THEN ran[cname] ELSE 0]
      BY <2>5, Zenon DEF ClientWrites
    <3>2. QED
      BY <1>1, <1>2, <3>1
  <2>6. QED
    BY <1>4, <2>1, <2>2, <2>3, <2>4, <2>5 DEF ClientStep
<1>5. ASSUME NEW u \in Tasks, SyncGet(u) PROVE FALSE
  BY <1>2, <1>5, Zenon DEF SyncGet, dbUnchangedBySync
<1>6. ASSUME SyncPut \/ SyncRaises \/ SyncFails \/ SyncDone PROVE FALSE
  BY <1>2, <1>6, Zenon DEF SyncPut, SyncRaises, SyncFails, SyncDone, dbUnchangedBySync
<1>7. ASSUME NEW u \in Tasks, PopulateEntry(u) \/ RunNotDue(u) PROVE FALSE
  <2>1. PICK run : Check(u, run)
    BY <1>7, Zenon DEF PopulateEntry, RunNotDue
  <2>2. ran' = ran \/ ran' = [ran EXCEPT ![u] = 0]
    BY <2>1 DEF Check
  <2>3. QED
    BY <1>2, <1>3, <2>2
<1>8. ASSUME NEW u \in Tasks, PopulateRaises(u) \/ RunRaises(u) PROVE FALSE
  BY <1>2, <1>8, Zenon DEF PopulateRaises, RunRaises, CheckRaises
<1>9. ASSUME \/ Access \/ PollFails \/ Load \/ LoadFails \/ Restart
             \/ StartTick \/ PopulateDone \/ RunNothing \/ SyncAfterSend \/ Push
             \/ ServiceSync \/ Stop \/ Close \/ Kill \/ UNCHANGED vars
      PROVE  FALSE
  <2>1. CASE Access \/ PollFails \/ Load \/ LoadFails \/ Restart
    BY <1>2, <2>1, Zenon DEF Access, PollFails, Load, LoadFails, Restart
  <2>2. CASE ~(Access \/ PollFails \/ Load \/ LoadFails \/ Restart)
    BY <1>2, <1>9, <2>2, Zenon DEF StartTick, PopulateDone, RunNothing,
       SyncAfterSend, Push, ServiceSync, Stop, Close, Kill, vars
  <2>3. QED
    BY <2>1, <2>2
<1>10. ASSUME NEW u \in Tasks, RunDue(u) PROVE u = t
  <2>1. ran' = [ran EXCEPT ![u] = ran[u] + 1] \/ ran' = ran
    BY <1>10, Zenon DEF RunDue
  <2>2. QED
    BY <1>1, <2>1
<1>11. QED
  BY <1>4, <1>5, <1>6, <1>7, <1>8, <1>9, <1>10 DEF Next, BeatStep

\* What the heap remembers keeps the runs of a task apart.
LEMMA SpacedStep ==
  ASSUME TypeOK, HeapRuns, RunInv, NEW t \in Tasks, RunDue(t), sentAt[t] # 0
  PROVE  now - sentAt[t] >= Every[t]
<1>1. t \in heap /\ Verdict(t, heapRun[t]) = "due"
  BY Zenon DEF RunDue, Top
<1>2. now - heapRun[t] >= Every[t]
  BY <1>1 DEF Verdict
<1>3. After(t, heapRun[t])
  BY <1>1, Zenon DEF HeapRuns
<1>4. QED
  BY <1>2, <1>3, TasksAssumption DEF After, TypeOK

\* Beat begins with tasks that have not run.
LEMMA Run_init == Init => FirstKeys /\ RunInv /\ HeapRuns
<1> SUFFICES ASSUME Init PROVE FirstKeys /\ RunInv /\ HeapRuns
  OBVIOUS
<1>1. /\ model = [t \in Tasks |-> NoModel] /\ sentAt = [t \in Tasks |-> 0]
      /\ row = [t \in Tasks |-> [NoRow EXCEPT !.pk = 1, !.enabled = TRUE,
                                              !.changed = 1]]
      /\ now = 1 /\ cpc = "idle" /\ pc = "load" /\ heap = {} /\ heapInvalidated = FALSE
  BY Zenon DEF Init
<1>2. NoModel.pk = 0 /\ [NoRow EXCEPT !.pk = 1, !.enabled = TRUE, !.changed = 1].pk = 1
  BY DEF NoModel, NoRow
<1>3. \A t \in Tasks : model[t].pk = 0 /\ row[t].pk = 1 /\ sentAt[t] = 0
  BY <1>1, <1>2
<1>4. FirstKeys
  BY <1>1, <1>3 DEF FirstKeys
<1>5. ASSUME NEW t \in Tasks PROVE ModelRemembers(t) /\ RowRemembers(t) /\ sentAt[t] <= now
  BY <1>1, <1>3 DEF ModelRemembers, RowRemembers, After
<1>6. ~Popped /\ pc \notin {"sync", "put"} /\ pc # "put" /\ pc # "down"
  BY <1>1 DEF Popped, Syncing
<1>7. RunInv
  BY <1>5, <1>6, Zenon DEF RunInv
<1>8. HeapRuns
  BY <1>1, <1>3, <1>6 DEF HeapRuns, Scheduled
<1>9. QED
  BY <1>4, <1>7, <1>8

\* A task is not sent again before its interval has passed, whatever the reloads
\* between two tick()s, the restarts, the failed polls, reads, sends and syncs,
\* the expiries and one-off runs: provided that no reload begins in the middle of
\* a tick(), at a later access than its first or, where there is no heap yet, at
\* all; and that no database error cuts the last sync() of a process short.
\* Without the first the code does respace runs (_heap_invalidated stays set, and
\* the heap is filled from entries older than the run); without the second the
\* run is lost with the process.
THEOREM SpacingHolds ==
  ASSUME "create" \notin ClientOps,
         "kill" \notin FaultKinds, "save" \notin FaultKinds
  PROVE  Spec /\ []NoReloadInTick /\ [][SyncFails => ret # "down"]_vars => Spacing
<1> DEFINE Inv == TypeOK /\ HeapInv /\ AgreeInv /\ FirstKeys /\ RunInv /\ HeapRuns
           Step == \A t \in Tasks : ran'[t] > ran[t] /\ sentAt[t] # 0
                                      => now - sentAt[t] >= Every[t]
           Saves == SyncFails => ret # "down"
<1>1. Init => Inv
  BY TypeOK_init, Agree_init, Run_init DEF Init, HeapInv, Syncing
<1>2. Inv /\ NoReloadInTick /\ [Next]_vars /\ [Saves]_vars => Inv'
  <2> SUFFICES ASSUME Inv, NoReloadInTick, [Next]_vars, [Saves]_vars PROVE Inv'
    OBVIOUS
  <2>1. CASE Saves
    BY <2>1, TypeOK_next, HeapInv_next, Agree_next, First_next, Run_next, HeapRuns_next
  <2>2. CASE UNCHANGED vars
    <3>1. SyncFails => ret # "down"
      <4>1. faults' = faults
        BY <2>2, Zenon DEF vars
      <4>2. ~SyncFails
        BY <4>1 DEF SyncFails, Fault, TypeOK
      <4>3. QED
        BY <4>2
    <3>2. QED
      BY <3>1, TypeOK_next, HeapInv_next, Agree_next, First_next, Run_next, HeapRuns_next
  <2>3. QED
    BY <2>1, <2>2
<1>3. Inv /\ [Next]_vars => [Step]_vars
  BY OnlyRunDueRuns, SpacedStep
<1>4. QED
  <2> HIDE DEF Inv, Step, Saves
  <2>1. Spec /\ []NoReloadInTick /\ [][Saves]_vars => [][Step]_vars
    BY <1>1, <1>2, <1>3, PTL DEF Spec
  <2>2. QED
    BY <2>1 DEF Spacing, Step, Saves

-----------------------------------------------------------------------------
(* A beat that no reload disturbs in the middle of a tick(): the client    *)
(* waits for the end of the tick(), and of the first one where beat is     *)
(* starting, every sync() succeeds, no task is one-off, and no reload is   *)
(* forced.  Then nothing announces a change between the first access of a  *)
(* tick() and its last, nor between the setup of a process and its first   *)
(* tick(), which looks for changes when it copies the schedule.            *)

\* The sync() of t announces nothing.
Quietly(t) == t \in Scheduled /\ model[t].noChanges

\* Setup or tick() has looked for changes, and will look again.
Reading == \/ Syncing("load")
           \/ pc = "load" /\ at # "boot"
           \/ pc = "access" /\ at # "cond"
           \/ heapNone /\ pc # "down"

CalmInv ==
  /\ now <= MaxTime + 1 /\ lastFullSync >= 1
  /\ cpc \notin {"form", "write"}
  /\ \A t \in dirty : Quietly(t) \/ row[t].pk = 0
  /\ pc \in {"sync", "put"} =>
       left \subseteq dirty
         /\ \A t \in dirty : Saving(t) \/ t \in saved \/ row[t].pk = 0
  /\ pc = "put" => Quietly(cur) /\ obj.noChanges
  /\ pc = "load" => \A t \in dirty : row[t].pk = 0
  /\ Reading => ~(notice /\ polled)
  /\ ~heapInvalidated
  /\ Syncing("load") => at = "cond"
  /\ pc = "load" => at \in {"boot", "cond"}

\* A step that writes no row and announces nothing.
LEMMA Calm_quiet ==
  ASSUME CalmInv, UNCHANGED <<now, lastFullSync, cpc, row, model, dirty, notice,
                              polled, heapNone, heapInvalidated>>,
         pc # "down", pc' \notin {"sync", "put", "load"},
         pc' = "access" => pc = "idle" /\ (at' = "cond" \/ heapNone)
  PROVE  CalmInv'
<1>1. \A t \in Tasks : Quietly(t)' = Quietly(t)
  BY DEF Quietly, Scheduled
<1>2. /\ pc' # "sync" /\ pc' # "put" /\ pc' # "load" /\ ~Syncing("load")'
      /\ Reading' => Reading
  BY DEF Syncing, Reading, CalmInv
<1>3. \A t \in dirty' : Quietly(t)' \/ row'[t].pk = 0
  BY DEF CalmInv, Quietly, Scheduled
<1>4. now' <= MaxTime + 1 /\ lastFullSync' >= 1
  BY DEF CalmInv
<1>5. cpc' \notin {"form", "write"}
  BY DEF CalmInv
<1>6. (Reading' => ~(notice' /\ polled')) /\ ~heapInvalidated'
  BY <1>2, Zenon DEF CalmInv
<1>7. pc' \notin {"sync", "put"}
  BY <1>2, Zenon
<1>8. QED
  BY <1>2, <1>3, <1>4, <1>5, <1>6, <1>7, Zenon DEF CalmInv

\* A sync() begins with all of _dirty.
LEMMA Calm_begins ==
  ASSUME CalmInv, UNCHANGED <<now, cpc, row, model, dirty, heapNone, heapInvalidated>>,
         lastFullSync' \in {lastFullSync, now}, now >= 1,
         pc # "down", pc' = "sync", left' = dirty, saved' = {},
         ret' = "load" => at' = "cond" /\ ~notice',
         ret' # "load" => UNCHANGED <<notice, polled>>
  PROVE  CalmInv'
<1>1. /\ pc' # "put" /\ pc' # "load"
      /\ Syncing("load")' => ret' = "load"
      /\ Reading' => ret' = "load" \/ Reading
  BY DEF Syncing, Reading
<1>3. \A t \in dirty' : Quietly(t)' \/ row'[t].pk = 0
  BY DEF CalmInv, Quietly, Scheduled
<1>4. now' <= MaxTime + 1 /\ lastFullSync' >= 1
  BY DEF CalmInv
<1>5. cpc' \notin {"form", "write"}
  BY DEF CalmInv
<1>6. ~heapInvalidated'
  BY Zenon DEF CalmInv
<1>7. left' \subseteq dirty' /\ \A t \in dirty' : Saving(t)'
  BY DEF Saving
<1>8. /\ Reading' => ~(notice' /\ polled')
      /\ Syncing("load")' => at' = "cond"
  <2>1. CASE ret' = "load"
    BY <2>1, Zenon
  <2>2. CASE ret' # "load"
    <3>1. notice' = notice /\ polled' = polled
      BY <2>2
    <3>2. Reading => ~(notice /\ polled)
      BY Zenon DEF CalmInv
    <3>3. QED
      BY <1>1, <2>2, <3>1, <3>2, Zenon
  <2>3. QED
    BY <2>1, <2>2
<1>9. QED
  BY <1>1, <1>3, <1>4, <1>5, <1>6, <1>7, <1>8, Zenon DEF CalmInv

\* The client deletes, enables and disables between two tick()s.
LEMMA Calm_client ==
  ASSUME QuietTicks, ClientOps \subseteq {"delete", "enable", "disable", "toggle"},
         TypeOK, CalmInv, Tick \/ ClientStep
  PROVE  CalmInv'
<1> USE DEF clientVars, memoryVars, heapVars, pollVars, syncVars, beatUnchanged
<1>1. /\ pc = "down" \/ (pc = "idle" /\ ~heapNone)
      /\ now' <= MaxTime + 1
      /\ UNCHANGED <<model, dirty, polled, lastFullSync, heapNone, heapInvalidated,
                     pc, at, ret>>
  <2>1. Undisturbed
    BY DEF Tick, ClientStep, ClientGets, ClientCreates, ClientDeletes,
       ClientUpdates, ClientSaves, ClientWrites, ClientPosts, ClientBegins
  <2>2. UNCHANGED <<model, dirty, polled, lastFullSync, heapNone, heapInvalidated,
                    pc, at, ret>>
    BY DEF Tick, ClientStep, ClientGets, ClientCreates, ClientDeletes,
       ClientUpdates, ClientSaves, ClientWrites, ClientPosts
  <2>3. now' <= MaxTime + 1
    <3>1. CASE Tick
      BY <3>1, BoundsAssumption DEF Tick, TypeOK
    <3>2. CASE ClientStep
      <4>1. now' = now
        BY <3>2 DEF ClientStep, ClientGets, ClientCreates, ClientDeletes,
           ClientUpdates, ClientSaves, ClientWrites, ClientPosts
      <4>2. QED
        BY <4>1 DEF CalmInv
    <3>3. QED
      BY <3>1, <3>2
  <2>4. QED
    BY <2>1, <2>2, <2>3 DEF Undisturbed
<1>2. /\ cpc' \notin {"form", "write"}
      /\ \A t \in Tasks : row'[t].pk = row[t].pk \/ row'[t].pk = 0
  <2>1. CASE Tick \/ ClientPosts
    BY <2>1 DEF Tick, ClientPosts, CalmInv, dbVars
  <2>2. ASSUME NEW t \in Tasks, ClientGets(t) \/ ClientCreates(t) PROVE FALSE
    BY <2>2 DEF ClientGets, ClientCreates, ClientBegins
  <2>3. ASSUME ClientSaves \/ ClientWrites PROVE FALSE
    BY <2>3 DEF ClientSaves, ClientWrites, CalmInv
  <2>4. ASSUME NEW t \in Tasks, ClientDeletes(t)
        PROVE  /\ cpc' \notin {"form", "write"}
               /\ \A u \in Tasks : row'[u].pk = row[u].pk \/ row'[u].pk = 0
    <3>1. row' = [row EXCEPT ![t] = NoRow] /\ cpc' = "post"
      BY <2>4, Zenon DEF ClientDeletes
    <3>2. NoRow.pk = 0 /\ row \in [Tasks -> RowType]
      BY DEF NoRow, TypeOK
    <3>3. QED
      BY <3>1, <3>2
  <2>5. ASSUME NEW o \in ClientOps, NEW S \in SUBSET Tasks, ClientUpdates(o, S)
        PROVE  cpc' = "post" /\ \A u \in Tasks : row'[u].pk = row[u].pk
    <3>1. cpc' = "post"
      BY <2>5, Zenon DEF ClientUpdates
    <3>2. QED
      BY <2>5, <3>1, UpdatesType
  <2>6. QED
    BY <2>1, <2>2, <2>3, <2>4, <2>5 DEF ClientStep
<1>3. dirty \subseteq Tasks
  BY DEF TypeOK
<1>4. \A t \in dirty' : Quietly(t)' \/ row'[t].pk = 0
  BY <1>1, <1>2, <1>3 DEF CalmInv, Quietly, Scheduled
<1>5. /\ pc' \notin {"sync", "put"} /\ pc' # "put" /\ pc' # "load"
      /\ ~Syncing("load")' /\ ~Reading'
  BY <1>1 DEF Syncing, Reading
<1>6. lastFullSync' >= 1 /\ ~heapInvalidated'
  <2>1. lastFullSync' >= 1
    BY <1>1 DEF CalmInv
  <2>2. ~heapInvalidated'
    BY <1>1, Zenon DEF CalmInv
  <2>3. QED
    BY <2>1, <2>2
<1>7. QED
  BY <1>1, <1>2, <1>4, <1>5, <1>6, Zenon DEF CalmInv

\* sync() writes back the instance's own mark.
LEMMA GotQuiet ==
  ASSUME TypeOK, NEW t \in Tasks, model[t].noChanges
  PROVE  Got(t).noChanges
<1> DEFINE m == model[t]
           e == row[t].enabled
           c == row[t].changed
           n == row[t].rev
<1>1. m \in ModelType /\ m = model[t] /\ m.noChanges = TRUE
  BY DEF TypeOK, ModelType
<1>2. Got(t) = [m EXCEPT !.enabled = e, !.changed = c, !.rev = n]
  BY Zenon DEF Got
<1> HIDE DEF m, e, c, n
<1>3. Got(t).noChanges = m.noChanges
  BY <1>1, <1>2 DEF ModelType
<1>4. QED
  BY <1>1, <1>3

\* A sync() that meets no error leaves in _dirty only what has no row.
LEMMA Calm_sync ==
  ASSUME "sync" \notin FaultKinds, TypeOK, AbsentOff, HeapInv, FirstKeys, CalmInv,
         \/ \E t \in Tasks : SyncGet(t)
         \/ SyncPut \/ SyncRaises \/ SyncFails \/ SyncDone
  PROVE  CalmInv'
<1> USE DEF dbVars, clientVars, heapVars, pollVars, dbUnchangedBySync
<1>0. dirty \subseteq Tasks /\ left \subseteq Tasks /\ saved \subseteq Tasks
  BY DEF TypeOK
<1>1. ASSUME NEW t \in Tasks, SyncGet(t) PROVE CalmInv'
  <2>1. /\ pc = "sync" /\ t \in left /\ left' = left \ {t}
        /\ \/ /\ pc' = "put" /\ cur' = t /\ obj' = Got(t)
              /\ t \in Scheduled /\ row[t].pk = model[t].pk
           \/ pc' = pc /\ ~(t \in Scheduled /\ row[t].pk = model[t].pk)
        /\ UNCHANGED <<now, cpc, row, notice, model, dirty, heapNone,
                       heapInvalidated, polled, lastFullSync, ret, saved, at>>
    BY <1>1, Zenon DEF SyncGet, Got
  <2>2. \A u \in Tasks : Quietly(u)' = Quietly(u)
    BY <2>1 DEF Quietly, Scheduled
  <2>3. /\ left \subseteq dirty
        /\ \A u \in dirty : Saving(u) \/ u \in saved \/ row[u].pk = 0
    BY <2>1, Zenon DEF CalmInv
  <2>4. Quietly(t) \/ row[t].pk = 0
    BY <2>1, <2>3, Zenon DEF CalmInv
  <2>5. ASSUME pc' = "put" PROVE Quietly(cur)' /\ obj'.noChanges
    <3>1. t \in Scheduled /\ row[t].pk = model[t].pk /\ cur' = t /\ obj' = Got(t)
      BY <2>1, <2>5
    <3>2. Quietly(t)
      BY <2>4, <3>1 DEF Scheduled
    <3>3. obj'.noChanges
      BY <3>1, <3>2, GotQuiet DEF Quietly
    <3>4. Quietly(cur)'
      BY <2>1, <3>1, <3>2 DEF Quietly, Scheduled
    <3>5. QED
      BY <3>3, <3>4
  <2>6. t \in Scheduled /\ row[t].pk # model[t].pk => row[t].pk = 0
    BY DEF FirstKeys, Scheduled
  <2>7. t \notin Scheduled => row[t].pk = 0
    BY <2>4 DEF Quietly
  <2>8. ASSUME NEW u \in dirty'
        PROVE  Saving(u)' \/ u \in saved' \/ row'[u].pk = 0
    <3>1. CASE u # t
      <4>1. Saving(u) => Saving(u)'
        BY <2>1, <3>1 DEF Saving
      <4>2. QED
        BY <2>1, <2>3, <4>1
    <3>2. CASE u = t
      BY <2>1, <2>6, <2>7, <3>2 DEF Saving
    <3>3. QED
      BY <3>1, <3>2
  <2>9. /\ left' \subseteq dirty'
        /\ \A u \in dirty' : Quietly(u)' \/ row'[u].pk = 0
    BY <1>0, <2>1, <2>2, <2>3 DEF CalmInv
  <2>10. /\ pc' # "load" /\ (Reading' => Reading)
         /\ Syncing("load")' => Syncing("load")
    BY <2>1 DEF Reading, Syncing
  <2>11. now' <= MaxTime + 1 /\ lastFullSync' >= 1 /\ cpc' \notin {"form", "write"}
    BY <2>1 DEF CalmInv
  <2>12. /\ Reading' => ~(notice' /\ polled')
         /\ ~heapInvalidated'
         /\ Syncing("load")' => at' = "cond"
    BY <2>1, <2>10, Zenon DEF CalmInv
  <2>13. QED
    BY <2>5, <2>8, <2>9, <2>10, <2>11, <2>12, Zenon DEF CalmInv
<1>2. CASE SyncPut
  <2>1. /\ pc = "put" /\ pc' = "sync" /\ row' = [row EXCEPT ![cur] = Written(obj)]
        /\ saved' = saved \cup {cur} /\ notice' = (notice \/ ~obj.noChanges)
        /\ UNCHANGED <<now, cpc, model, dirty, heapNone, heapInvalidated, polled,
                       lastFullSync, ret, left, at>>
    BY <1>2, Zenon DEF SyncPut
  <2>2. PICK c \in Tasks : c = cur
    BY <2>1 DEF TypeOK
  <2>3. Quietly(c) /\ obj.noChanges
    BY <2>1, <2>2, Zenon DEF CalmInv
  <2>4. notice' => notice
    BY <2>1, <2>3, Zenon
  <2>5. \A u \in Tasks \ {c} : row'[u] = row[u]
    BY <2>1, <2>2 DEF TypeOK
  <2>6. \A u \in Tasks : Quietly(u)' = Quietly(u)
    BY <2>1 DEF Quietly, Scheduled
  <2>7. /\ left \subseteq dirty
        /\ \A u \in dirty : Saving(u) \/ u \in saved \/ row[u].pk = 0
        /\ \A u \in dirty : Quietly(u) \/ row[u].pk = 0
    BY <2>1, Zenon DEF CalmInv
  <2>8. ASSUME NEW u \in dirty'
        PROVE  /\ Quietly(u)' \/ row'[u].pk = 0
               /\ Saving(u)' \/ u \in saved' \/ row'[u].pk = 0
    <3>1. u \in dirty /\ u \in Tasks
      BY <1>0, <2>1
    <3>2. CASE u = c
      BY <2>1, <2>2, <2>3, <2>6, <3>2
    <3>3. CASE u # c
      <4>1. Saving(u) => Saving(u)'
        BY <2>1, <2>2, <3>3 DEF Saving
      <4>2. u \in saved => u \in saved'
        BY <2>1
      <4>3. QED
        BY <2>5, <2>6, <2>7, <3>1, <3>3, <4>1, <4>2
    <3>4. QED
      BY <3>2, <3>3
  <2>9. /\ pc' # "load" /\ pc' # "put" /\ (Reading' => Reading)
        /\ Syncing("load")' => Syncing("load")
    BY <2>1 DEF Reading, Syncing
  <2>10. now' <= MaxTime + 1 /\ lastFullSync' >= 1 /\ cpc' \notin {"form", "write"}
    BY <2>1 DEF CalmInv
  <2>11. /\ Reading' => ~(notice' /\ polled')
         /\ ~heapInvalidated'
         /\ Syncing("load")' => at' = "cond"
    BY <2>1, <2>4, <2>9, Zenon DEF CalmInv
  <2>12. left' \subseteq dirty'
    BY <2>1, <2>7
  <2>13. QED
    BY <2>8, <2>9, <2>10, <2>11, <2>12, Zenon DEF CalmInv
<1>3. CASE SyncRaises
  <2>1. pc = "put" /\ row[cur].pk \notin {0, obj.pk}
    BY <1>3 DEF SyncRaises
  <2>2. QED
    BY <2>1 DEF FirstKeys, TypeOK
<1>4. CASE SyncFails
  BY <1>4 DEF SyncFails, Fault
<1>5. CASE SyncDone
  <2>1. /\ pc = "sync" /\ left = {} /\ pc' = ret /\ dirty' = dirty \ saved
        /\ UNCHANGED <<now, cpc, row, notice, model, heapNone, heapInvalidated,
                       polled, lastFullSync, at>>
    BY <1>5, Zenon DEF SyncDone, EndSync
  <2>2. ret \in {"idle", "load", "push", "exiting", "down"}
    BY DEF TypeOK
  <2>3. \A u \in dirty : Saving(u) \/ u \in saved \/ row[u].pk = 0
    BY <2>1, Zenon DEF CalmInv
  <2>4. \A u \in dirty' : row'[u].pk = 0
    BY <2>1, <2>3 DEF Saving
  <2>5. /\ pc' # "put" /\ pc' \notin {"sync", "put"} /\ ~Syncing("load")'
        /\ pc' = "load" => Syncing("load")
        /\ Reading' => Reading
    BY <2>1, <2>2 DEF Reading, Syncing
  <2>6. pc' = "load" => at' = "cond"
    BY <2>1, <2>5, Zenon DEF CalmInv
  <2>7. now' <= MaxTime + 1 /\ lastFullSync' >= 1 /\ cpc' \notin {"form", "write"}
    BY <2>1 DEF CalmInv
  <2>8. /\ Reading' => ~(notice' /\ polled')
        /\ ~heapInvalidated'
    BY <2>1, <2>5, Zenon DEF CalmInv
  <2>9. QED
    BY <2>4, <2>5, <2>6, <2>7, <2>8, Zenon DEF CalmInv
<1>6. QED
  BY <1>1, <1>2, <1>3, <1>4, <1>5

\* Only the first access of a tick() finds a change, and none forces a reload.
LEMMA Calm_poll ==
  ASSUME MaxTime < SyncMax, TypeOK, HeapInv, CalmInv, Access \/ PollFails
  PROVE  CalmInv'
<1> USE DEF dbVars, clientVars, memoryVars
<1>1. PICK changed \in {notice /\ polled, FALSE} :
        /\ Decide(changed)
        /\ UNCHANGED <<now, row, cpc, model, dirty>>
        /\ \/ notice' = FALSE
           \/ UNCHANGED <<notice, polled>> /\ changed = FALSE
  <2>1. CASE Access
    BY <2>1, Zenon DEF Access
  <2>2. CASE PollFails
    BY <2>2, Zenon DEF PollFails
  <2>3. QED
    BY <2>1, <2>2
<1>2. pc = "access" /\ at \in {"defaults", "entries", "cond", "copy", "fill"}
  BY DEF Access, PollFails, HeapInv, TypeOK
<1>3. ~(now - lastFullSync >= SyncMax)
  <2>1. now <= MaxTime + 1 /\ lastFullSync >= 1
    BY DEF CalmInv
  <2>2. QED
    BY <2>1, BoundsAssumption, DelaysAssumption DEF TypeOK
<1>4. CASE changed
  <2>1. notice /\ polled
    BY <1>1, <1>4, Zenon
  <2>2. at = "cond"
    <3>1. ~Reading
      BY <2>1, Zenon DEF CalmInv
    <3>2. QED
      BY <1>2, <3>1 DEF Reading
  <2>3. ~heapInvalidated
    BY Zenon DEF CalmInv
  <2>4. ~notice'
    BY <1>1, <1>4, Zenon
  <2>5. lastFullSync' = now /\ BeginSync("load") /\ UNCHANGED <<at, heapVars>>
    BY <1>1, <1>4, Zenon DEF Decide
  <2>6. /\ pc' = "sync" /\ left' = dirty /\ saved' = {}
        /\ ret' = "load" /\ at' = "cond"
        /\ UNCHANGED <<heapNone, heapInvalidated>>
    BY <2>2, <2>5 DEF BeginSync, heapVars
  <2>7. now >= 1 /\ pc # "down"
    BY <1>2 DEF TypeOK
  <2>8. QED
    BY <1>1, <2>4, <2>5, <2>6, <2>7, Calm_begins
<1>5. CASE ~changed
  <2>1. /\ Continue(heapInvalidated, Scheduled) /\ lastFullSync' = lastFullSync
        /\ IF at = "copy" THEN EmptyHeap /\ heapNone' = FALSE
           ELSE UNCHANGED <<heap, heapRun, heapWhen, heapNone>>
    BY <1>1, <1>3, <1>5, Zenon DEF Decide
  <2>2. heapInvalidated = FALSE
    <3>1. ~heapInvalidated /\ heapInvalidated \in BOOLEAN
      BY Zenon DEF CalmInv, TypeOK
    <3>2. QED
      BY <3>1, Zenon
  <2>3. Continue(FALSE, Scheduled)
    BY <2>1, <2>2, Zenon
  <2>4. ~heapInvalidated'
    BY <2>3, Zenon DEF Continue, InSetup
  <2>5. /\ pc' \in {"access", "run", "populate", "idle"}
        /\ at = "cond" => pc' = "run"
    BY <2>3 DEF Continue, InSetup
  <2>6. /\ pc' \notin {"sync", "put"} /\ pc' # "put" /\ pc' # "load"
        /\ ~Syncing("load")' /\ (Reading' => Reading)
    <3>1. CASE at = "cond"
      <4>1. heapNone' = heapNone /\ pc' = "run"
        BY <2>1, <2>5, <3>1, "cond" # "copy", Zenon
      <4>2. QED
        BY <1>2, <4>1 DEF Syncing, Reading
    <3>2. CASE at # "cond"
      BY <1>2, <2>5, <3>2 DEF Syncing, Reading
    <3>3. QED
      BY <3>1, <3>2
  <2>7. \A t \in dirty' : Quietly(t)' \/ row'[t].pk = 0
    BY <1>1 DEF CalmInv, Quietly, Scheduled
  <2>8. now' <= MaxTime + 1 /\ lastFullSync' >= 1 /\ cpc' \notin {"form", "write"}
    BY <1>1, <2>1 DEF CalmInv
  <2>9. Reading' => ~(notice' /\ polled')
    BY <1>1, <2>6, Zenon DEF CalmInv
  <2>10. QED
    BY <2>4, <2>6, <2>7, <2>8, <2>9, Zenon DEF CalmInv
<1>6. QED
  BY <1>4, <1>5

\* A reload follows a sync() that has left in _dirty only what has no row.
LEMMA Calm_load ==
  ASSUME TypeOK, HeapInv, CalmInv, Load
  PROVE  CalmInv'
<1> DEFINE fresh == {t \in Tasks : row[t].pk # 0 /\ row[t].enabled}
<1> USE DEF dbVars, clientVars, memoryVars
<1>1. /\ pc = "load" /\ UNCHANGED <<now, row, notice, cpc, dirty, polled>>
      /\ IF at = "boot"
         THEN /\ lastFullSync' = now /\ pc' = "access" /\ at' = "defaults"
              /\ UNCHANGED <<heapVars, left>>
         ELSE heapNone' = FALSE /\ Continue(TRUE, fresh) /\ UNCHANGED lastFullSync
  BY Zenon DEF Load
<1> HIDE DEF fresh
<1>2. at \in {"boot", "cond"} /\ ~heapInvalidated
  BY <1>1, Zenon DEF CalmInv
<1>3. \A t \in dirty' : row'[t].pk = 0
  BY <1>1, Zenon DEF CalmInv
<1>4. cpc' \notin {"form", "write"} /\ now' <= MaxTime + 1 /\ lastFullSync' >= 1
  <2>1. UNCHANGED <<now, cpc>> /\ lastFullSync' \in {now, lastFullSync}
    BY <1>1
  <2>2. now >= 1
    BY DEF TypeOK
  <2>3. QED
    BY <2>1, <2>2 DEF CalmInv
<1>5. pc' = "access" /\ ~heapInvalidated'
  <2>1. CASE at = "boot"
    <3>1. pc' = "access" /\ heapInvalidated' = heapInvalidated
      BY <1>1, <2>1 DEF heapVars
    <3>2. QED
      BY <1>2, <3>1, Zenon
  <2>2. CASE at = "cond"
    <3>1. Continue(TRUE, fresh)
      BY <1>1, <2>2, "cond" # "boot", Zenon
    <3>2. QED
      BY <2>2, <3>1 DEF Continue, InSetup
  <2>3. QED
    BY <1>2, <2>1, <2>2
<1>6. /\ pc' \notin {"sync", "put"} /\ pc' # "put" /\ pc' # "load"
      /\ ~Syncing("load")' /\ Reading
  BY <1>1, <1>2, <1>5 DEF Syncing, Reading, HeapInv
<1>7. Reading' => ~(notice' /\ polled')
  BY <1>1, <1>6, Zenon DEF CalmInv
<1>8. QED
  BY <1>3, <1>4, <1>5, <1>6, <1>7, Zenon DEF CalmInv

\* A step of tick() that may mark instances.
LEMMA Calm_steps ==
  ASSUME CalmInv, ~heapNone,
         UNCHANGED <<now, lastFullSync, cpc, heapNone, heapInvalidated>>,
         \A t \in dirty' : Quietly(t)' \/ row'[t].pk = 0,
         pc' \notin {"sync", "put", "load", "access"}
  PROVE  CalmInv'
<1>1. /\ pc' \notin {"sync", "put"} /\ pc' # "put" /\ pc' # "load"
      /\ ~Syncing("load")' /\ ~Reading'
  BY DEF Syncing, Reading
<1>2. now' <= MaxTime + 1 /\ lastFullSync' >= 1 /\ cpc' \notin {"form", "write"}
  BY DEF CalmInv
<1>3. ~heapInvalidated'
  BY Zenon DEF CalmInv
<1>4. QED
  BY <1>1, <1>2, <1>3, Zenon DEF CalmInv

\* is_due() marks every instance that it changes: no task is one-off.
LEMMA Calm_check ==
  ASSUME OneOff = {}, TypeOK, AbsentOff, HeapRuns, CalmInv,
         NEW t \in Tasks, PopulateEntry(t) \/ RunNotDue(t)
  PROVE  CalmInv'
<1> USE DEF clientVars, pollVars
<1>1. PICK run : Check(t, run)
  BY Zenon DEF PopulateEntry, RunNotDue
<1>2. /\ UNCHANGED <<now, cpc, dirty, heapNone, heapInvalidated, lastFullSync>>
      /\ pc' \in {"populate", "idle"} /\ ~heapNone
  BY Zenon DEF PopulateEntry, RunNotDue, HeapRuns, Unfilled
<1>3. Verdict(t, run) # "spent"
  BY DEF Verdict
<1>4. model' = [model EXCEPT ![t] = Checked(t, run)] /\ dirty \subseteq Tasks
  BY <1>1, Zenon DEF Check, TypeOK
<1>5. CASE Verdict(t, run) = "expired"
  <2> DEFINE m == model[t]
             e == [m EXCEPT !.enabled = FALSE, !.lastRun = 0, !.noChanges = TRUE]
  <2>1. row' = [row EXCEPT ![t] = Written(Checked(t, run))] /\ Checked(t, run) = e
    BY <1>1, <1>5, Zenon DEF Check, Checked
  <2>2. m \in ModelType /\ m.enabled
    BY <1>5 DEF TypeOK, Verdict
  <2>3. m.pk # 0
    BY <2>2, Zenon DEF AbsentOff
  <2> HIDE DEF m
  <2>4. e.noChanges = TRUE /\ e.pk = m.pk
    BY <2>2 DEF ModelType
  <2> HIDE DEF e
  <2>5. model'[t] = e
    BY <1>4, <2>1 DEF TypeOK
  <2>6. Quietly(t)'
    BY <2>3, <2>4, <2>5 DEF Quietly, Scheduled
  <2>7. \A u \in Tasks \ {t} : row'[u] = row[u] /\ model'[u] = model[u]
    BY <1>4, <2>1 DEF TypeOK
  <2>8. \A u \in dirty' : Quietly(u)' \/ row'[u].pk = 0
    <3>1. ASSUME NEW u \in dirty' PROVE Quietly(u)' \/ row'[u].pk = 0
      <4>1. CASE u = t
        BY <2>6, <4>1
      <4>2. CASE u # t
        <5>1. u \in dirty /\ row'[u] = row[u] /\ model'[u] = model[u]
          BY <1>2, <1>4, <2>7, <4>2
        <5>2. Quietly(u) \/ row[u].pk = 0
          BY <5>1, Zenon DEF CalmInv
        <5>3. Quietly(u) => Quietly(u)'
          BY <1>4, <5>1 DEF Quietly, Scheduled
        <5>4. QED
          BY <5>1, <5>2, <5>3
      <4>3. QED
        BY <4>1, <4>2
    <3>2. QED
      BY <3>1
  <2>9. QED
    BY <1>2, <2>8, Calm_steps
<1>6. CASE Verdict(t, run) # "expired"
  <2>1. row' = row
    BY <1>1, <1>3, <1>6, Zenon DEF Check
  <2>2. model' = model
    BY <1>3, <1>4, <1>6 DEF Checked, TypeOK
  <2>3. \A u \in dirty' : Quietly(u)' \/ row'[u].pk = 0
    BY <1>2, <2>1, <2>2 DEF CalmInv, Quietly, Scheduled
  <2>4. QED
    BY <1>2, <2>3, Calm_steps
<1>7. QED
  BY <1>5, <1>6

\* is_due() raises nothing but for an instance without last_run_at.
LEMMA Calm_raises ==
  ASSUME OneOff = {}, "save" \notin FaultKinds, TypeOK, AbsentOff, FirstKeys, CalmInv,
         NEW t \in Tasks, PopulateRaises(t) \/ RunRaises(t)
  PROVE  CalmInv'
<1>1. PICK run : CheckRaises(t, run)
  BY Zenon DEF PopulateRaises, RunRaises
<1>2. /\ model' = [model EXCEPT ![t] = Checked(t, run)] /\ pc' = "closing"
      /\ UNCHANGED <<now, row, notice, cpc, dirty, heapNone, heapInvalidated, polled,
                     lastFullSync>>
  BY <1>1, Zenon DEF CheckRaises, dbVars, clientVars, heapVars, pollVars
<1>3. Verdict(t, run) # "spent"
  BY DEF Verdict
<1>4. ~(Verdict(t, run) = "expired" /\ row[t].pk \notin {0, model[t].pk})
  <2>1. Verdict(t, run) = "expired" => model[t].pk # 0
    BY DEF Verdict, AbsentOff
  <2>2. QED
    BY <2>1 DEF FirstKeys
<1>5. ~Fault("save")
  BY DEF Fault
<1>6. Verdict(t, run) = "broken"
  BY <1>1, <1>3, <1>4, <1>5, Zenon DEF CheckRaises
<1>7. model' = model
  BY <1>2, <1>6 DEF Checked, TypeOK
<1>8. pc' \notin {"sync", "put", "load"} /\ pc' # "access" /\ pc # "down"
  BY <1>2 DEF PopulateRaises, RunRaises
<1>9. QED
  BY <1>2, <1>7, <1>8, Calm_quiet

\* reserve() marks the instance.
LEMMA Calm_due ==
  ASSUME TypeOK, HeapInv, HeapRuns, CalmInv, NEW t \in Tasks, RunDue(t)
  PROVE  CalmInv'
<1>1. /\ Reserve(t) /\ dirty' = dirty \cup {t} /\ t \in heap
      /\ pc = "run" /\ pc' = "sent"
      /\ UNCHANGED <<now, row, cpc, heapNone, heapInvalidated, lastFullSync>>
      /\ ~heapNone
  BY Zenon DEF RunDue, Reserve, Top, dbVars, clientVars, pollVars, HeapRuns, Unfilled
<1>2. /\ model'[t].noChanges /\ \A u \in Tasks : model'[u].pk = model[u].pk
      /\ \A u \in Tasks \ {t} : model'[u] = model[u]
  BY <1>1, ReserveRuns
<1>3. t \in Scheduled /\ Scheduled' = Scheduled /\ dirty \subseteq Tasks
  BY <1>1, <1>2, SameKeys DEF HeapInv, TypeOK
<1>4. \A u \in dirty' : Quietly(u)' \/ row'[u].pk = 0
  BY <1>1, <1>2, <1>3 DEF CalmInv, Quietly
<1>5. QED
  BY <1>1, <1>4, Calm_steps

\* Every step of a calm beat keeps it calm.
LEMMA Calm_next ==
  ASSUME QuietTicks, OneOff = {}, MaxTime < SyncMax,
         ClientOps \subseteq {"delete", "enable", "disable", "toggle"},
         FaultKinds \subseteq {"poll", "load", "send", "stop"}
  PROVE  TypeOK /\ HeapInv /\ AgreeInv /\ FirstKeys /\ HeapRuns /\ CalmInv /\ [Next]_vars
           => CalmInv'
<1> SUFFICES ASSUME TypeOK, HeapInv, AgreeInv, FirstKeys, HeapRuns, CalmInv, [Next]_vars
             PROVE  CalmInv'
  OBVIOUS
<1> USE DEF dbVars, clientVars, memoryVars, heapVars, pollVars, syncVars
<1>1. AbsentOff
  BY DEF AgreeInv
<1>2. "sync" \notin FaultKinds /\ "save" \notin FaultKinds /\ "kill" \notin FaultKinds
  OBVIOUS
<1>3. CASE StartTick \/ PopulateDone \/ RunNothing \/ Push \/ Stop \/ LoadFails
  <2>1. UNCHANGED <<now, lastFullSync, cpc, row, notice, model, dirty, polled, heapNone,
                    heapInvalidated>>
    BY <1>3, Zenon DEF StartTick, PopulateDone, RunNothing, Push, Stop, LoadFails
  <2>2. /\ pc' \in {"access", "run", "idle", "closing"}
        /\ pc' = "access" => pc = "idle" /\ at' = IF heapNone THEN "copy" ELSE "cond"
    BY <1>3 DEF StartTick, PopulateDone, RunNothing, Push, Stop, LoadFails
  <2>3. /\ pc' \notin {"sync", "put", "load"}
        /\ pc' = "access" => pc = "idle" /\ (at' = "cond" \/ heapNone)
    BY <2>2
  <2>4. pc # "down"
    BY <1>3 DEF StartTick, PopulateDone, RunNothing, Push, Stop, LoadFails
  <2>5. QED
    BY <2>1, <2>3, <2>4, Calm_quiet
<1>4. CASE SyncAfterSend \/ ServiceSync \/ Close
  <2>1. /\ UNCHANGED <<now, cpc, row, notice, model, dirty, heapNone, heapInvalidated,
                       polled, lastFullSync>>
        /\ \E r \in {"push", "idle", "exiting", "down"} : BeginSync(r)
    BY <1>4 DEF SyncAfterSend, ServiceSync, Close
  <2>2. pc' = "sync" /\ left' = dirty /\ saved' = {} /\ ret' # "load"
    BY <2>1 DEF BeginSync
  <2>3. now >= 1 /\ pc # "down"
    BY <1>4 DEF SyncAfterSend, ServiceSync, Close, TypeOK
  <2>4. QED
    BY <2>1, <2>2, <2>3, Calm_begins
<1>5. CASE Kill
  BY <1>2, <1>5 DEF Kill, Fault
<1>6. CASE Restart
  <2>1. /\ pc' = "load" /\ at' = "boot" /\ dirty' = {} /\ polled' = FALSE
        /\ UNCHANGED <<now, cpc, lastFullSync>> /\ ~heapInvalidated'
    BY <1>6, Zenon DEF Restart
  <2>2. pc' \notin {"sync", "put"} /\ pc' # "put" /\ ~Syncing("load")'
    BY <2>1 DEF Syncing
  <2>3. now' <= MaxTime + 1 /\ lastFullSync' >= 1 /\ cpc' \notin {"form", "write"}
    BY <2>1 DEF CalmInv
  <2>4. ~polled' /\ \A t \in dirty' : row'[t].pk = 0 /\ FALSE
    BY <2>1
  <2>5. QED
    BY <2>1, <2>2, <2>3, <2>4, Zenon DEF CalmInv
<1>7. CASE UNCHANGED vars
  <2>1. UNCHANGED <<now, row, notice, cpc, model, dirty, heapNone, heapInvalidated,
                    polled, lastFullSync, pc, at, ret, left, saved, cur, obj>>
    BY <1>7, Zenon DEF vars
  <2>2. \A t : Quietly(t)' = Quietly(t) /\ Saving(t)' = Saving(t)
    BY <2>1 DEF Quietly, Scheduled, Saving
  <2>3. Reading' = Reading /\ Syncing("load")' = Syncing("load")
    BY <2>1 DEF Reading, Syncing
  <2>4. Quietly(cur)' = Quietly(cur)
    BY <2>1 DEF Quietly, Scheduled
  <2>5. QED
    BY <2>1, <2>2, <2>3, <2>4, Zenon DEF CalmInv
<1>8. CASE Tick \/ ClientStep
  BY <1>8, Calm_client
<1>9. QED
  BY <1>1, <1>2, <1>3, <1>4, <1>5, <1>6, <1>7, <1>8, Calm_poll, Calm_load,
     Calm_sync, Calm_check, Calm_raises, Calm_due DEF Next, BeatStep

\* While nothing interferes with beat but restarts, failed polls, reads and sends,
\* and a client that deletes, enables and disables tasks between two tick()s, but
\* not between setup_schedule() and the first, no reload falls in the middle of a
\* tick(), and every stop saves the runs.
LEMMA CalmTicks ==
  ASSUME QuietTicks, OneOff = {}, MaxTime < SyncMax,
         ClientOps \subseteq {"delete", "enable", "disable", "toggle"},
         FaultKinds \subseteq {"poll", "load", "send", "stop"}
  PROVE  Spec => []NoReloadInTick /\ [][SyncFails => ret # "down"]_vars
<1> DEFINE Inv == /\ TypeOK /\ HeapInv /\ AgreeInv /\ FirstKeys /\ RunInv
                  /\ HeapRuns /\ CalmInv
           Saves == SyncFails => ret # "down"
<1>0. /\ "create" \notin ClientOps
      /\ "kill" \notin FaultKinds /\ "save" \notin FaultKinds /\ "sync" \notin FaultKinds
  OBVIOUS
<1>1. Saves
  BY <1>0 DEF SyncFails, Fault
<1>2. Init => Inv
  <2> SUFFICES ASSUME Init PROVE CalmInv
    BY TypeOK_init, Agree_init, Run_init DEF Init, HeapInv, Syncing
  <2>1. /\ now = 1 /\ lastFullSync = 1 /\ cpc = "idle" /\ dirty = {}
        /\ pc = "load" /\ at = "boot" /\ polled = FALSE /\ ~heapInvalidated
    BY Zenon DEF Init
  <2>2. now <= MaxTime + 1 /\ lastFullSync >= 1 /\ cpc \notin {"form", "write"}
    BY <2>1, BoundsAssumption
  <2>3. pc \notin {"sync", "put"} /\ pc # "put" /\ ~Syncing("load")
    BY <2>1 DEF Syncing
  <2>4. ~polled /\ \A t \in dirty : FALSE
    BY <2>1
  <2>5. QED
    BY <2>1, <2>2, <2>3, <2>4, Zenon DEF CalmInv
<1>3. Inv /\ [Next]_vars => Inv'
  <2> SUFFICES ASSUME Inv, [Next]_vars PROVE Inv'
    OBVIOUS
  <2>1. NoReloadInTick
    BY DEF CalmInv, NoReloadInTick
  <2>2. QED
    BY <1>0, <1>1, <2>1, TypeOK_next, HeapInv_next, Agree_next, First_next,
       Run_next, HeapRuns_next, Calm_next
<1>4. Inv => NoReloadInTick
  BY DEF CalmInv, NoReloadInTick
<1>5. Spec => [][Saves]_vars
  BY <1>1, PTL
<1>6. Spec => []NoReloadInTick
  <2> HIDE DEF Inv
  <2>1. QED
    BY <1>2, <1>3, <1>4, PTL DEF Spec
<1>7. QED
  BY <1>5, <1>6 DEF Saves

\* So no task is sent again before its interval has passed.  That the client waits
\* for the first tick() is needed: the change of a task between setup_schedule(),
\* which has polled, and that tick(), which has no heap to compare with, reloads
\* at its copy, and the next tick() fills the heap again (lines 280-282, 520-524).
THEOREM CalmSpacingHolds ==
  ASSUME QuietTicks, OneOff = {}, MaxTime < SyncMax,
         ClientOps \subseteq {"delete", "enable", "disable", "toggle"},
         FaultKinds \subseteq {"poll", "load", "send", "stop"}
  PROVE  Spec => Spacing
<1>1. "create" \notin ClientOps /\ "kill" \notin FaultKinds /\ "save" \notin FaultKinds
  OBVIOUS
<1>2. QED
  BY <1>1, CalmTicks, SpacingHolds

-----------------------------------------------------------------------------
(* Beat keeps the ledger.  The intervals are those of the section above;   *)
(* the counts are those of DirtyCoversRuns and StopSavesRuns.              *)

\* A step that writes no row and no instance, forgets nothing and sends nothing
\* leaves the books alone.
LEMMA Book_quiet ==
  ASSUME UNCHANGED <<now, row, model, sentAt, dirty>>, Beat' = Beat
  PROVE  UNCHANGED Book!vars
BY DEF Book!vars, Live, Scheduled, Counted, Stored

\* A client writes rows while time stands still.
LEMMA Book_client ==
  ASSUME "edit" \notin ClientOps, "create" \notin ClientOps,
         TypeOK, StopInv, Tick \/ ClientStep
  PROVE  Book!Next
<1>1. /\ UNCHANGED <<model, dirty, pc>>
      /\ \A t \in Tasks :
           row'[t] = NoRow \/ (row'[t].pk = row[t].pk /\ row'[t].count = row[t].count)
  BY ClientKeepsCounts DEF StopInv
<1>2. Counted' = Counted /\ Beat' = Beat /\ Scheduled' = Scheduled
  BY <1>1 DEF Counted, Beat, Scheduled
<1>3. CASE Tick
  <2>1. now' = now + 1 /\ UNCHANGED <<row, sentAt>>
    BY <1>3, Zenon DEF Tick, dbVars, history
  <2>2. Live' = Live /\ Stored' = Stored
    BY <1>1, <1>2, <2>1 DEF Live, Stored
  <2>3. Book!Pass
    BY <1>1, <1>2, <2>1, <2>2 DEF Book!Pass
  <2>4. QED
    BY <2>3 DEF Book!Next
<1>4. CASE ClientStep
  <2>1. now' = now
    BY <1>4 DEF ClientStep, ClientGets, ClientCreates, ClientDeletes,
       ClientUpdates, ClientSaves, ClientWrites, ClientPosts
  <2>2. \A t \in Tasks : sentAt'[t] \in {0, sentAt[t]}
    <3>1. ASSUME NEW t \in Tasks, ClientGets(t) \/ ClientCreates(t) \/ ClientDeletes(t)
          PROVE  sentAt' = sentAt \/ \E S : ClientTouches(S)
      BY <3>1, Zenon DEF ClientGets, ClientCreates, ClientDeletes, history
    <3>2. ASSUME NEW o \in ClientOps, NEW S \in SUBSET Tasks, ClientUpdates(o, S)
          PROVE  ClientTouches(S)
      BY <3>2, Zenon DEF ClientUpdates
    <3>3. ASSUME ClientSaves \/ ClientWrites \/ ClientPosts
          PROVE  sentAt' = sentAt \/ \E S : ClientTouches(S)
      BY <3>3, Zenon DEF ClientSaves, ClientWrites, ClientPosts, history
    <3>4. sentAt' = sentAt \/ \E S : ClientTouches(S)
      BY <1>4, <3>1, <3>2, <3>3, Zenon DEF ClientStep
    <3>5. QED
      BY <3>4 DEF ClientTouches
  <2>3. NoRow.pk = 0
    BY DEF NoRow
  <2>4. ASSUME NEW t \in Live' PROVE t \in Live /\ Stored'[t] = Stored[t]
    <3>1. /\ t \in Scheduled /\ t \in Tasks /\ model'[t].enabled
          /\ row'[t].pk = model'[t].pk /\ model[t].pk # 0
      BY <1>2 DEF Live, Scheduled
    <3>2. row'[t].pk = row[t].pk /\ row'[t].count = row[t].count
      BY <1>1, <2>3, <3>1
    <3>3. row[t].pk = model[t].pk /\ model[t].enabled
      BY <1>1, <3>1, <3>2, Zenon
    <3>4. QED
      BY <3>1, <3>2, <3>3 DEF Live, Stored
  <2>5. Book!Write
    BY <1>1, <1>2, <2>1, <2>2, <2>4 DEF Book!Write
  <2>6. QED
    BY <2>5 DEF Book!Next
<1>5. QED
  BY <1>3, <1>4

\* sync() saves what it has taken out of left, and then forgets what it has saved.
LEMMA Book_sync ==
  ASSUME SyncFails => ret # "down", TypeOK, DirtyInv, DirtyInv', StopInv, StopInv',
         \/ \E t \in Tasks : SyncGet(t)
         \/ SyncPut \/ SyncRaises \/ SyncFails \/ SyncDone
  PROVE  [Book!Next]_(Book!vars)
<1> USE DEF dbUnchangedBySync, dbVars, history
<1>1. ASSUME NEW t \in Tasks, SyncGet(t) PROVE UNCHANGED Book!vars
  <2>1. /\ UNCHANGED <<now, row, model, sentAt, dirty>>
        /\ pc = "sync" /\ (pc' = "put" \/ pc' = pc)
    BY <1>1, Zenon DEF SyncGet
  <2>2. Beat' = Beat
    BY <2>1 DEF Beat
  <2>3. QED
    BY <2>1, <2>2, Book_quiet
<1>2. CASE SyncPut
  <2>1. /\ pc = "put" /\ pc' = "sync" /\ row' = [row EXCEPT ![cur] = Written(obj)]
        /\ row[cur].pk \in {0, obj.pk}
        /\ UNCHANGED <<now, model, sentAt, dirty>>
    BY <1>2, Zenon DEF SyncPut
  <2>2. cur \in Tasks /\ row \in [Tasks -> RowType]
    BY <2>1 DEF TypeOK
  <2>3. /\ Written(obj).pk = obj.pk /\ Written(obj).count = obj.count
        /\ obj.pk = model[cur].pk /\ obj.count = model[cur].count /\ obj.pk = 1
    BY <2>1 DEF Written, DirtyInv, StopInv, OneKey
  <2>4. /\ row'[cur].pk = model[cur].pk /\ row'[cur].count = model[cur].count
        /\ \A t \in Tasks \ {cur} : row'[t] = row[t]
    BY <2>1, <2>2, <2>3
  <2>5. /\ Beat = "up" /\ Beat' = "up" /\ Counted' = Counted /\ Scheduled' = Scheduled
    BY <2>1 DEF Beat, Counted, Scheduled
  <2>6. Stored' = [Stored EXCEPT ![cur] = Counted[cur]]
    BY <2>2, <2>4 DEF Stored, Counted
  <2>7. ASSUME NEW t \in Tasks
        PROVE  (t \in Live => t \in Live') /\ (t \in Live' => t \in Live \/ t = cur)
    <3>1. t # cur => row'[t] = row[t]
      BY <2>4
    <3>2. t = cur => row'[t].pk = model[t].pk
      BY <2>4
    <3>3. QED
      BY <2>1, <2>5, <3>1, <3>2, Zenon DEF Live
  <2>8. Live \subseteq Live' /\ Live' \subseteq Live \cup {cur}
    BY <2>7, <2>5 DEF Live, Scheduled
  <2>9. Book!Save(cur)
    BY <2>1, <2>5, <2>6, <2>8 DEF Book!Save
  <2>10. QED
    BY <2>2, <2>9 DEF Book!Next
<1>3. ~SyncRaises
  BY DEF SyncRaises, StopInv, OneKey, TypeOK
<1>4. CASE SyncFails \/ SyncDone
  <2>1. /\ UNCHANGED <<now, row, model, sentAt>> /\ dirty' \subseteq dirty
        /\ pc \in {"sync", "put"} /\ pc' = ret
    BY <1>4 DEF SyncFails, SyncDone, EndSync
  <2>2. /\ Beat = "up" /\ Counted' = Counted /\ Stored' = Stored
        /\ Scheduled' = Scheduled /\ Live' = Live
    BY <2>1 DEF Beat, Counted, Stored, Scheduled, Live
  <2>3. CASE ret # "down"
    <3>1. pc' # "down" /\ Beat' = "up"
      BY <2>1, <2>3 DEF Beat
    <3>2. ASSUME NEW t \in Live' PROVE Stored'[t] = Counted'[t] \/ t \in dirty'
      <4>1. /\ t \in Scheduled' /\ t \in Tasks /\ model'[t].enabled
            /\ row'[t].pk = model'[t].pk
        BY DEF Live, Scheduled
      <4>2. row'[t].count = model'[t].count \/ t \in dirty'
        BY <3>1, <4>1, Zenon DEF DirtyInv, DirtyCoversRuns
      <4>3. QED
        BY <4>1, <4>2 DEF Stored, Counted
    <3>3. Book!Accounted'
      BY <3>2 DEF Book!Accounted, Book!Shared
    <3>4. Book!Settle
      BY <2>1, <2>2, <3>1, <3>3 DEF Book!Settle
    <3>5. QED
      BY <3>4 DEF Book!Next
  <2>4. CASE ret = "down"
    <3>1. pc' = "down" /\ Beat' = "down"
      BY <2>1, <2>4 DEF Beat
    <3>2. ASSUME NEW t \in Live PROVE Stored[t] = Counted[t]
      <4>1. /\ t \in Scheduled' /\ t \in Tasks /\ model'[t].enabled
            /\ row'[t].pk = model'[t].pk
        BY <2>2 DEF Live, Scheduled
      <4>2. ~Saving(t)'
        BY <3>1 DEF Saving
      <4>3. row'[t].count = model'[t].count
        BY <3>1, <4>1, <4>2, Zenon DEF StopInv
      <4>4. QED
        BY <2>1, <4>1, <4>3 DEF Stored, Counted
    <3>3. Book!Leave
      BY <2>1, <2>2, <3>1, <3>2 DEF Book!Leave, Book!Shared
    <3>4. QED
      BY <3>3 DEF Book!Next
  <2>5. QED
    BY <2>3, <2>4
<1>5. QED
  BY <1>1, <1>2, <1>3, <1>4

\* A reload keeps the count of what is in _dirty, and takes all others from the
\* rows.
LEMMA Book_load ==
  ASSUME TypeOK, Load
  PROVE  Book!Next
<1>1. /\ UNCHANGED <<now, row, sentAt, dirty>> /\ pc = "load"
      /\ pc' \in {"idle", "access", "run", "populate"}
  BY DEF Load, Continue, InSetup, dbVars
<1>2. Beat = "up" /\ Beat' = "up" /\ Stored' = Stored
  BY <1>1 DEF Beat, Stored
<1>3. ASSUME NEW t \in Live' \ dirty PROVE Counted'[t] = Stored[t]
  <2>1. t \in Tasks /\ model'[t].pk # 0
    BY DEF Live, Scheduled
  <2>2. model'[t].count = row[t].count
    BY <2>1, LoadType
  <2>3. QED
    BY <2>1, <2>2 DEF Counted, Stored
<1>4. ASSUME NEW t \in Live' \cap Live \cap dirty PROVE Counted'[t] = Counted[t]
  <2>1. t \in Tasks /\ model'[t].pk # 0 /\ t \in Scheduled /\ t \in dirty
    BY DEF Live, Scheduled
  <2>2. row[t].pk # 0 /\ row[t].enabled
    BY <2>1, LoadType, Zenon
  <2>3. model'[t].count = model[t].count
    BY <2>1, <2>2, LoadRuns
  <2>4. QED
    BY <2>1, <2>3 DEF Counted
<1>5. Book!Read
  BY <1>1, <1>2, <1>3, <1>4 DEF Book!Read
<1>6. QED
  BY <1>5 DEF Book!Next

\* is_due() ends a task, or changes nothing.
LEMMA Book_check ==
  ASSUME TypeOK, NEW t \in Tasks,
         \/ PopulateEntry(t) \/ PopulateRaises(t) \/ RunNotDue(t) \/ RunRaises(t)
  PROVE  [Book!Next]_(Book!vars)
<1>1. /\ UNCHANGED <<now, sentAt, dirty>> /\ pc \in {"populate", "run"}
      /\ pc' \in {"populate", "idle", "closing"}
  BY Zenon DEF PopulateEntry, PopulateRaises, RunNotDue, RunRaises, CheckRaises, history
<1>2. Beat = "up" /\ Beat' = "up"
  BY <1>1 DEF Beat
<1>3. /\ \A u \in Tasks \ {t} : row'[u] = row[u] /\ model'[u] = model[u]
      /\ \A u \in Tasks : model'[u].pk = model[u].pk
      /\ (row' = row /\ model' = model) \/ ~model'[t].enabled
  <2>1. CASE PopulateEntry(t) \/ RunNotDue(t)
    <3>1. PICK run : Check(t, run)
      BY <2>1, Zenon DEF PopulateEntry, RunNotDue
    <3>2. model' = [model EXCEPT ![t] = Checked(t, run)]
      BY <3>1, Zenon DEF Check
    <3>3. QED
      BY <3>1, <3>2, CheckDisables, CheckCounts, CheckKeepsKeys
  <2>2. CASE PopulateRaises(t) \/ RunRaises(t)
    <3>1. PICK run : CheckRaises(t, run)
      BY <2>2, Zenon DEF PopulateRaises, RunRaises
    <3>2. model' = [model EXCEPT ![t] = Checked(t, run)] /\ row' = row
      BY <3>1, Zenon DEF CheckRaises, dbVars
    <3>3. \A u \in Tasks : model'[u].pk = model[u].pk
      BY <3>2, CheckKeepsKeys
    <3>4. model' = model \/ ~model'[t].enabled
      BY <3>2 DEF Checked, TypeOK, ModelType
    <3>5. QED
      BY <3>2, <3>3, <3>4 DEF TypeOK
  <2>3. QED
    BY <2>1, <2>2
<1>4. CASE row' = row /\ model' = model
  BY <1>1, <1>2, <1>4, Book_quiet
<1>5. CASE ~model'[t].enabled
  <2>1. Scheduled' = Scheduled
    BY <1>3, SameKeys
  <2>2. \A u \in Tasks \ {t} : Counted'[u] = Counted[u] /\ Stored'[u] = Stored[u]
    BY <1>3 DEF Counted, Stored
  <2>3. t \notin Live'
    BY <1>5, Zenon DEF Live
  <2>4. \A u \in Tasks \ {t} : u \in Live' <=> u \in Live
    BY <1>3, <2>1, Zenon DEF Live
  <2>5. Live' = Live \ {t}
    BY <2>3, <2>4 DEF Live, Scheduled
  <2>6. Book!End(t)
    BY <1>1, <1>2, <2>2, <2>5 DEF Book!End
  <2>7. QED
    BY <2>6 DEF Book!Next
<1>6. QED
  BY <1>3, <1>4, <1>5

\* tick() sends what is due, once its interval has passed.
LEMMA Book_due ==
  ASSUME TypeOK, HeapRuns, RunInv, NEW t \in Tasks, RunDue(t)
  PROVE  Book!Next
<1>1. /\ UNCHANGED <<now, row>> /\ Reserve(t) /\ dirty' = dirty \cup {t}
      /\ pc = "run" /\ pc' = "sent" /\ Verdict(t, heapRun[t]) = "due"
      /\ sentAt' = sentAt \/ sentAt' = [sentAt EXCEPT ![t] = now]
  BY Zenon DEF RunDue, Reserve, dbVars
<1>2. Beat = "up" /\ Beat' = "up" /\ Stored' = Stored
  BY <1>1 DEF Beat, Stored
<1>3. /\ \A u \in Tasks : model'[u].pk = model[u].pk
      /\ \A u \in Tasks \ {t} : model'[u] = model[u]
      /\ model'[t].enabled <=> model[t].enabled
  BY <1>1, ReserveRuns
<1>4. model'[t].count = model[t].count + 1
  BY <1>1, ReserveRuns
<1>5. Counted' = [Counted EXCEPT ![t] = @ + 1]
  BY <1>3, <1>4 DEF Counted
<1>6. \A u \in Tasks : u \in Live' <=> u \in Live
  BY <1>1, <1>3, Zenon DEF Live, Scheduled
<1>7. Live' = Live
  BY <1>6 DEF Live, Scheduled
<1>8. t \in OneOff => Counted[t] = 0
  BY <1>1 DEF Verdict, Counted, TypeOK, ModelType
<1>9. sentAt[t] # 0 => now - sentAt[t] >= Every[t]
  BY SpacedStep
<1>10. Book!Run(t)
  BY <1>1, <1>2, <1>5, <1>7, <1>8, <1>9 DEF Book!Run
<1>11. QED
  BY <1>10 DEF Book!Next

\* A restarted beat has nothing to save, and has read nothing.
LEMMA Book_restart ==
  ASSUME Restart PROVE Book!Next
<1>1. /\ UNCHANGED <<now, row, sentAt>> /\ pc = "down" /\ pc' = "load"
      /\ dirty' = {} /\ model' = [t \in Tasks |-> NoModel]
  BY Zenon DEF Restart, dbVars, history
<1>2. NoModel.pk = 0
  BY DEF NoModel
<1>3. Beat = "down" /\ Beat' = "up" /\ Stored' = Stored
  BY <1>1 DEF Beat, Stored
<1>4. Live' = {}
  BY <1>1, <1>2 DEF Live, Scheduled
<1>5. Book!Start
  BY <1>1, <1>3, <1>4 DEF Book!Start
<1>6. QED
  BY <1>5 DEF Book!Next

\* Every step of beat and of its client is a step of the ledger, or leaves it alone.
LEMMA Book_next ==
  ASSUME "edit" \notin ClientOps, "create" \notin ClientOps, "kill" \notin FaultKinds,
         TypeOK, DirtyInv, DirtyInv', StopInv, StopInv', HeapRuns, RunInv,
         SyncFails => ret # "down", [Next]_vars
  PROVE  [Book!Next]_(Book!vars)
<1> USE DEF dbVars, memoryVars, history
<1>1. CASE \/ StartTick \/ Access \/ PollFails \/ PopulateDone \/ RunNothing
           \/ SyncAfterSend \/ Push \/ ServiceSync \/ Stop \/ LoadFails \/ Close
  <2>1. /\ UNCHANGED <<now, row, model, sentAt, dirty>> /\ pc # "down"
    BY <1>1, Zenon DEF StartTick, Access, PollFails, PopulateDone, RunNothing,
       SyncAfterSend, Push, ServiceSync, Stop, LoadFails, Close
  <2>2. pc' # "down"
    <3>1. CASE Access \/ PollFails
      <4>1. PICK changed : Decide(changed)
        BY <3>1, Zenon DEF Access, PollFails
      <4>2. QED
        BY <4>1, TypeOK_decide
    <3>2. CASE ~(Access \/ PollFails)
      BY <1>1, <3>2 DEF StartTick, PopulateDone, RunNothing, SyncAfterSend, Push,
         ServiceSync, Stop, LoadFails, Close, BeginSync
    <3>3. QED
      BY <3>1, <3>2
  <2>3. Beat' = Beat
    BY <2>1, <2>2 DEF Beat
  <2>4. QED
    BY <2>1, <2>3, Book_quiet
<1>2. CASE UNCHANGED vars
  <2>1. UNCHANGED <<now, row, model, sentAt, dirty>> /\ Beat' = Beat
    BY <1>2, Zenon DEF vars, Beat
  <2>2. QED
    BY <2>1, Book_quiet
<1>3. ~Kill
  BY DEF Kill, Fault
<1>4. QED
  BY <1>1, <1>2, <1>3, Book_client, Book_sync, Book_load, Book_check, Book_due,
     Book_restart DEF Next, BeatStep

\* Beat keeps the ledger: it sends no task before its interval has passed, loses
\* no run between its memory and the table, and leaves with every run saved;
\* whatever the reloads, restarts, deletions, bulk updates, expiries, one-off
\* ends, and failed polls, reads, sends and syncs, on the conditions of
\* SpacingHolds and as long as no form puts an old count back.
THEOREM KeepsLedgerHolds ==
  ASSUME "edit" \notin ClientOps, "create" \notin ClientOps,
         "kill" \notin FaultKinds, "save" \notin FaultKinds
  PROVE  Spec /\ []NoReloadInTick /\ [][SyncFails => ret # "down"]_vars => KeepsLedger
<1> DEFINE Inv == /\ TypeOK /\ HeapInv /\ AgreeInv /\ FirstKeys /\ RunInv /\ HeapRuns
                  /\ KeysInv /\ DirtyInv /\ StopInv
           Saves == SyncFails => ret # "down"
<1>1. Init => Inv
  BY TypeOK_init, Agree_init, Run_init, Stop_init DEF Init, HeapInv, Syncing
<1>2. Inv /\ NoReloadInTick /\ [Next]_vars /\ [Saves]_vars => Saves /\ Inv'
  <2> SUFFICES ASSUME Inv, NoReloadInTick, [Next]_vars, [Saves]_vars
               PROVE  Saves /\ Inv'
    OBVIOUS
  <2>1. Saves
    <3>1. CASE UNCHANGED vars
      <4>1. faults' = faults
        BY <3>1, Zenon DEF vars
      <4>2. ~SyncFails
        BY <4>1 DEF SyncFails, Fault, TypeOK
      <4>3. QED
        BY <4>2
    <3>2. QED
      BY <3>1
  <2>2. QED
    BY <2>1, TypeOK_next, HeapInv_next, Agree_next, First_next, Run_next,
       HeapRuns_next, CountInv_next, Stop_next
<1>3. Inv /\ Inv' /\ Saves /\ [Next]_vars => [Book!Next]_(Book!vars)
  BY Book_next
<1>4. Init => Book!Init
  <2> SUFFICES ASSUME Init PROVE Book!Init
    OBVIOUS
  <2>1. /\ now = 1 /\ pc = "load" /\ dirty = {} /\ sentAt = [t \in Tasks |-> 0]
        /\ model = [t \in Tasks |-> NoModel]
    BY Zenon DEF Init
  <2>2. TypeOK /\ NoModel.pk = 0
    BY TypeOK_init DEF NoModel
  <2>3. Beat = "up" /\ Live = {}
    BY <2>1, <2>2 DEF Beat, Live, Scheduled
  <2>4. Counted \in [Tasks -> Nat] /\ Stored \in [Tasks -> Nat]
    BY <2>2 DEF Counted, Stored, TypeOK, ModelType, RowType
  <2>5. QED
    BY <2>1, <2>3, <2>4 DEF Book!Init
<1>5. QED
  <2> HIDE DEF Inv, Saves
  <2>1. Spec /\ []NoReloadInTick /\ [][Saves]_vars => Book!Spec
    BY <1>1, <1>2, <1>3, <1>4, PTL DEF Spec, Book!Spec
  <2>2. QED
    BY <2>1 DEF KeepsLedger, Saves

\* A beat that no client disturbs from the start of its process to the end of its
\* first tick(), nor in any other, keeps the ledger.
THEOREM CalmLedgerHolds ==
  ASSUME QuietTicks, OneOff = {}, MaxTime < SyncMax,
         ClientOps \subseteq {"delete", "enable", "disable", "toggle"},
         FaultKinds \subseteq {"poll", "load", "send", "stop"}
  PROVE  Spec => KeepsLedger
<1>1. /\ "edit" \notin ClientOps /\ "create" \notin ClientOps
      /\ "kill" \notin FaultKinds /\ "save" \notin FaultKinds
  OBVIOUS
<1>2. QED
  BY <1>1, CalmTicks, KeepsLedgerHolds
=============================================================================
