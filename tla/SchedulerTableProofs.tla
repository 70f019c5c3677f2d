------------------------- MODULE SchedulerTableProofs -------------------------
(***************************************************************************)
(* Proofs that beat and the table agree: on what runs, whenever no notice  *)
(* is on its way; on how often it ran, when beat has stopped; and on which *)
(* one-off tasks are done.                                                 *)
(***************************************************************************)
EXTENDS DatabaseSchedulerProofs

-----------------------------------------------------------------------------
(* Beat runs the enabled tasks.                                            *)

\* Beat is about to read the table, or on its way out.
Reloading == pc = "load" \/ (pc \in {"sync", "put"} /\ ret = "load")
Ending ==
  \/ pc \in {"closing", "exiting", "down"}
  \/ pc \in {"sync", "put"} /\ ret \in {"exiting", "down"}

\* Beat will read the table again: what has been written to it since the last
\* time is announced, or going to be.
Behind == (polled /\ (notice \/ cpc = "post")) \/ Reloading \/ Ending

Agree(t) ==
  /\ row[t].enabled <=> model[t].enabled
  /\ row[t].enabled => row[t].pk = model[t].pk /\ row[t].rev = model[t].rev

\* A task that is not there is not enabled.
AbsentOff ==
  /\ \A t \in Tasks : /\ row[t].enabled => row[t].pk # 0
                      /\ model[t].enabled => model[t].pk # 0
  /\ cpc \in {"form", "write"} => form.pk # 0
  /\ pc = "put" => obj.pk # 0

\* What sync() is about to write back agrees with the instance.
ObjAgrees ==
  pc = "put" =>
    \/ Behind \/ cur \in gap
    \/ /\ obj.enabled <=> model[cur].enabled
       /\ obj.enabled => obj.pk = model[cur].pk /\ obj.rev = model[cur].rev

AgreeInv ==
  /\ AbsentOff
  /\ \A t \in Tasks \ gap : Behind \/ Agree(t)
  /\ ObjAgrees

\* Setting the fields of a run leaves the others.
LEMMA RunFields ==
  ASSUME NEW m \in ModelType, NEW i \in Int, NEW n \in Nat, NEW e \in BOOLEAN
  PROVE  LET r == [m EXCEPT !.lastRun = i, !.count = n, !.noChanges = e]
         IN  r.pk = m.pk /\ r.rev = m.rev /\ (r.enabled <=> m.enabled)
BY DEF ModelType

\* The instance that sync() writes back, field by field.
LEMMA GotFields ==
  ASSUME TypeOK, NEW t \in Tasks
  PROVE  /\ Got(t).pk = model[t].pk /\ Got(t).rev = row[t].rev
         /\ Got(t).enabled <=> row[t].enabled
<1> DEFINE m == model[t]
           e == row[t].enabled
           c == row[t].changed
           n == row[t].rev
<1>1. m \in ModelType
  BY DEF TypeOK
<1>2. Got(t) = [m EXCEPT !.enabled = e, !.changed = c, !.rev = n]
  BY Zenon DEF Got
<1> HIDE DEF m, e, c, n
<1>3. Got(t).pk = m.pk /\ Got(t).rev = n /\ Got(t).enabled = e
  BY <1>1, <1>2 DEF ModelType
<1>4. QED
  BY <1>3 DEF m, e, n

\* A reload makes instances of the enabled rows, in their latest revision.
LEMMA LoadAgrees ==
  ASSUME TypeOK, AbsentOff, Load, NEW t \in Tasks
  PROVE  /\ Agree(t)'
         /\ model'[t].enabled => model'[t].pk # 0
<1> DEFINE fresh == {u \in Tasks : row[u].pk # 0 /\ row[u].enabled}
           kept == dirty \cap fresh \cap Scheduled
           m == Fresh(t)
           Kept == [m EXCEPT !.lastRun = model[t].lastRun, !.count = model[t].count,
                             !.noChanges = model[t].noChanges]
<1>1. model'[t] = IF t \notin fresh THEN NoModel
                  ELSE IF t \notin kept THEN m ELSE Kept
  BY Zenon DEF Load
<1>2. row' = row
  BY DEF Load, dbVars
<1>3. m \in ModelType /\ m.pk = row[t].pk
  BY FreshType DEF TypeOK
<1>4. m.rev = row[t].rev /\ m.enabled = TRUE
  BY DEF Fresh
<1>5. Kept.pk = m.pk /\ Kept.rev = m.rev /\ (Kept.enabled <=> m.enabled)
  <2>1. model[t].lastRun \in Int /\ model[t].count \in Nat /\ model[t].noChanges \in BOOLEAN
    BY DEF TypeOK, ModelType
  <2> HIDE DEF m
  <2>2. QED
    BY <1>3, <2>1, RunFields
<1> HIDE DEF m, Kept
<1>6. CASE t \in fresh
  <2>1. model'[t] \in {m, Kept}
    BY <1>1, <1>6, Zenon
  <2>2. row[t].enabled /\ row[t].pk # 0
    BY <1>6
  <2>3. model'[t].pk = row[t].pk /\ model'[t].rev = row[t].rev
    BY <1>3, <1>4, <1>5, <2>1
  <2>4. model'[t].enabled
    BY <1>4, <1>5, <2>1, Zenon
  <2>5. QED
    BY <1>2, <2>2, <2>3, <2>4, Zenon DEF Agree
<1>7. CASE t \notin fresh
  <2>1. model'[t] = NoModel
    BY <1>1, <1>7, Zenon
  <2>2. ~NoModel.enabled
    BY DEF NoModel
  <2>3. ~row[t].enabled
    BY <1>7 DEF AbsentOff
  <2>4. QED
    BY <1>2, <2>1, <2>2, <2>3, Zenon DEF Agree
<1>8. QED
  BY <1>6, <1>7

\* is_due() writes nothing, or disables a task and its instance.
LEMMA CheckDisables ==
  ASSUME TypeOK, NEW t \in Tasks, NEW run, Check(t, run)
  PROVE  \/ row' = row /\ model' = model
         \/ /\ model[t].enabled /\ ~row'[t].enabled /\ ~model'[t].enabled
            /\ row'[t].pk = model[t].pk
            /\ \A u \in Tasks \ {t} : row'[u] = row[u] /\ model'[u] = model[u]
<1>1. model' = [model EXCEPT ![t] = Checked(t, run)]
  BY Zenon DEF Check
<1>2. model \in [Tasks -> ModelType] /\ row \in [Tasks -> RowType]
  BY DEF TypeOK
<1>3. ASSUME Verdict(t, run) \in {"expired", "spent"} PROVE model[t].enabled
  BY <1>3 DEF Verdict
<1>4. CASE Verdict(t, run) = "expired"
  <2>1. row' = [row EXCEPT ![t] = Written(Checked(t, run))]
    BY <1>4, Zenon DEF Check
  <2>2. Checked(t, run).enabled = FALSE /\ Checked(t, run).pk = model[t].pk
    BY <1>2, <1>4, EndedType DEF Checked
  <2>3. ~Written(Checked(t, run)).enabled /\ Written(Checked(t, run)).pk = model[t].pk
    BY <2>2, Zenon DEF Written
  <2>4. QED
    BY <1>1, <1>2, <1>3, <1>4, <2>1, <2>2, <2>3
<1>5. CASE Verdict(t, run) = "spent"
  <2> DEFINE r == row[t]
             s == [r EXCEPT !.enabled = FALSE, !.lastRun = 0, !.count = 0, !.changed = now]
  <2>1. row' = [row EXCEPT ![t] = s] /\ r.pk = model[t].pk
    BY <1>5, "spent" # "expired", Zenon DEF Check
  <2>2. Checked(t, run).enabled = FALSE
    BY <1>2, <1>5, EndedType DEF Checked
  <2>3. r \in RowType
    BY <1>2
  <2> HIDE DEF r
  <2>4. ~s.enabled /\ s.pk = r.pk
    BY <2>3 DEF RowType
  <2> HIDE DEF s
  <2>5. QED
    BY <1>1, <1>2, <1>3, <1>5, <2>1, <2>2, <2>4
<1>6. CASE Verdict(t, run) \notin {"expired", "spent"}
  BY <1>1, <1>2, <1>6 DEF Check, Checked
<1>7. QED
  BY <1>4, <1>5, <1>6

\* A step that leaves rows and instances alone keeps AgreeInv, unless it ends
\* what beat was behind for.
LEMMA Agree_quiet ==
  ASSUME AgreeInv, UNCHANGED <<row, model, gap>>, Behind => Behind',
         cpc' \in {"form", "write"} => form'.pk # 0,
         pc' = "put" => UNCHANGED <<pc, cur, obj>>
  PROVE  AgreeInv'
<1>1. AbsentOff'
  BY Zenon DEF AgreeInv, AbsentOff
<1>2. ASSUME NEW t \in Tasks \ gap PROVE Behind' \/ Agree(t)'
  BY Zenon DEF AgreeInv, Agree
<1>3. ObjAgrees'
  BY Zenon DEF AgreeInv, ObjAgrees
<1>4. QED
  BY <1>1, <1>2, <1>3, Zenon DEF AgreeInv

\* Changes to the rows in S, that are announced or known to be missed.
LEMMA Agree_writes ==
  ASSUME AgreeInv, NEW S \in SUBSET Tasks, UNCHANGED <<model, pc, ret, cur, obj, polled>>,
         cpc' = "post", notice => notice',
         gap' = IF polled THEN gap ELSE gap \cup S,
         \A t \in Tasks \ S : row'[t] = row[t],
         \A t \in S : row'[t].enabled => row'[t].pk # 0
  PROVE  AgreeInv'
<1>1. AbsentOff'
  BY Zenon DEF AgreeInv, AbsentOff
<1>2. Behind => Behind'
  BY Zenon DEF Behind, Reloading, Ending
<1>3. CASE polled
  <2>1. Behind'
    BY <1>3, Zenon DEF Behind
  <2>2. QED
    BY <1>1, <2>1, Zenon DEF AgreeInv, ObjAgrees
<1>4. CASE ~polled
  <2>1. gap' = gap \cup S
    BY <1>4, Zenon
  <2>2. ASSUME NEW t \in Tasks \ gap' PROVE Behind' \/ Agree(t)'
    <3>1. row'[t] = row[t] /\ t \in Tasks \ gap
      BY <2>1
    <3>2. QED
      BY <1>2, <3>1, Zenon DEF AgreeInv, Agree
  <2>3. ObjAgrees'
    BY <1>2, <2>1, Zenon DEF AgreeInv, ObjAgrees
  <2>4. QED
    BY <1>1, <2>2, <2>3, Zenon DEF AgreeInv
<1>5. QED
  BY <1>3, <1>4

LEMMA Agree_client ==
  ASSUME TypeOK, AgreeInv, Tick \/ ClientStep
  PROVE  AgreeInv'
<1> USE DEF dbVars, clientVars, memoryVars, heapVars, pollVars, syncVars,
        history, beatUnchanged
<1>1. CASE Tick
  <2>1. UNCHANGED <<row, model, gap, cpc, form, pc, cur, obj, polled, notice, ret>>
    BY <1>1 DEF Tick
  <2>2. Behind => Behind'
    BY <2>1 DEF Behind, Reloading, Ending
  <2>3. QED
    BY <2>1, <2>2, Agree_quiet DEF AgreeInv, AbsentOff
<1>2. ASSUME NEW t \in Tasks, ClientGets(t) PROVE AgreeInv'
  <2>1. /\ UNCHANGED <<row, model, gap, pc, cur, obj, polled, notice, ret>>
        /\ cpc = "idle" /\ cpc' = "form" /\ form'.pk # 0
    BY <1>2 DEF ClientGets, ClientBegins
  <2>2. Behind => Behind'
    BY <2>1 DEF Behind, Reloading, Ending
  <2>3. QED
    BY <2>1, <2>2, Agree_quiet
<1>3. CASE ClientSaves
  <2>1. /\ UNCHANGED <<row, model, gap, pc, cur, obj, polled, ret>>
        /\ cpc = "form" /\ cpc' = "write" /\ notice' = TRUE
    BY <1>3 DEF ClientSaves
  <2>2. PICK e \in BOOLEAN : form' = [form EXCEPT !.enabled = e]
    BY <1>3, Zenon DEF ClientSaves
  <2>3. form'.pk = form.pk
    BY <2>2 DEF TypeOK, RowType
  <2>4. Behind => Behind'
    BY <2>1 DEF Behind, Reloading, Ending
  <2>5. QED
    BY <2>1, <2>3, <2>4, Agree_quiet DEF AgreeInv, AbsentOff
<1>4. ASSUME NEW t \in Tasks, ClientCreates(t) PROVE AgreeInv'
  <2>1. /\ UNCHANGED <<row, model, gap, pc, cur, obj, polled, ret>>
        /\ cpc = "idle" /\ cpc' = "write" /\ notice' = TRUE
        /\ form' = [NoRow EXCEPT !.pk = nextPk, !.enabled = TRUE]
    BY <1>4, Zenon DEF ClientCreates, ClientBegins
  <2>2. form'.pk = nextPk /\ nextPk # 0
    BY <2>1 DEF NoRow, TypeOK
  <2>3. Behind => Behind'
    BY <2>1 DEF Behind, Reloading, Ending
  <2>4. QED
    BY <2>1, <2>2, <2>3, Agree_quiet
<1>5. ASSUME NEW t \in Tasks, ClientDeletes(t) PROVE AgreeInv'
  <2>1. /\ row' = [row EXCEPT ![t] = NoRow] /\ notice' = TRUE /\ cpc' = "post"
        /\ gap' = IF polled THEN gap ELSE gap \cup {t}
        /\ UNCHANGED <<model, pc, ret, cur, obj, polled>>
    BY <1>5, Zenon DEF ClientDeletes, ClientTouches
  <2>2. row \in [Tasks -> RowType]
    BY DEF TypeOK
  <2>3. /\ \A u \in Tasks \ {t} : row'[u] = row[u]
        /\ \A u \in {t} : row'[u].enabled => row'[u].pk # 0
    <3>1. row'[t] = NoRow /\ \A u \in Tasks \ {t} : row'[u] = row[u]
      BY <2>1, <2>2
    <3>2. ~NoRow.enabled
      BY DEF NoRow
    <3>3. \A u \in {t} : row'[u] = NoRow
      BY <3>1
    <3>4. QED
      BY <3>1, <3>2, <3>3, Zenon
  <2>4. {t} \in SUBSET Tasks /\ notice'
    BY <2>1
  <2>5. QED
    BY <2>1, <2>3, <2>4, Agree_writes, Zenon
<1>6. ASSUME NEW o \in ClientOps, NEW S \in SUBSET Tasks, ClientUpdates(o, S)
      PROVE  AgreeInv'
  <2>1. /\ cpc' = "post" /\ notice' = notice
        /\ gap' = IF polled THEN gap ELSE gap \cup S
        /\ UNCHANGED <<model, pc, ret, cur, obj, polled>>
        /\ \A t \in S : row[t].pk # 0
        /\ \A t \in Tasks \ S : row'[t] = row[t]
    BY <1>6, Zenon DEF ClientUpdates, ClientTouches
  <2>2. \A t \in S : row'[t].pk # 0
    BY <1>6, <2>1, UpdatesType
  <2>3. QED
    BY <2>1, <2>2, Agree_writes
<1>7. CASE ClientWrites
  <2>1. /\ cpc = "write" /\ UNCHANGED <<model, pc, ret, cur, obj, polled, notice, form>>
    BY <1>7 DEF ClientWrites
  <2>2. cname \in Tasks /\ form.pk # 0 /\ row \in [Tasks -> RowType] /\ form \in RowType
    BY <2>1 DEF TypeOK, AgreeInv, AbsentOff
  <2>3. CASE row[cname].pk \in {0, form.pk}
    <3>1. /\ row' = [row EXCEPT ![cname] = Written([form EXCEPT !.rev = @ + 1])]
          /\ cpc' = "post" /\ gap' = IF polled THEN gap ELSE gap \cup {cname}
      BY <1>7, <2>3, Zenon DEF ClientWrites, ClientTouches
    <3>2. Written([form EXCEPT !.rev = @ + 1]).pk = form.pk
      BY <2>2 DEF Written, RowType
    <3>3. /\ \A u \in Tasks \ {cname} : row'[u] = row[u]
          /\ \A u \in {cname} : row'[u].enabled => row'[u].pk # 0
      BY <2>2, <3>1, <3>2
    <3>4. {cname} \in SUBSET Tasks
      BY <2>2
    <3>5. QED
      BY <2>1, <3>1, <3>3, <3>4, Agree_writes
  <2>4. CASE row[cname].pk \notin {0, form.pk}
    <3>1. UNCHANGED <<row, gap>> /\ cpc' = "idle"
      BY <1>7, <2>4, Zenon DEF ClientWrites
    <3>2. Behind => Behind'
      BY <2>1, <3>1 DEF Behind, Reloading, Ending
    <3>3. QED
      BY <2>1, <3>1, <3>2, Agree_quiet
  <2>5. QED
    BY <2>3, <2>4
<1>8. CASE ClientPosts
  <2>1. /\ UNCHANGED <<row, model, gap, pc, cur, obj, polled, ret>>
        /\ cpc' = "idle" /\ notice' = TRUE
    BY <1>8 DEF ClientPosts
  <2>2. Behind => Behind'
    BY <2>1 DEF Behind, Reloading, Ending
  <2>3. QED
    BY <2>1, <2>2, Agree_quiet
<1>9. QED
  BY <1>1, <1>2, <1>3, <1>4, <1>5, <1>6, <1>7, <1>8 DEF ClientStep

\* What sync() writes back is what it has read, or is announced.
LEMMA Agree_sync ==
  ASSUME TypeOK, AgreeInv,
         \/ \E t \in Tasks : SyncGet(t)
         \/ SyncPut \/ SyncRaises \/ SyncFails \/ SyncDone
  PROVE  AgreeInv'
<1> USE DEF dbVars, clientVars, heapVars, pollVars, history, dbUnchangedBySync
<1>1. ASSUME NEW t \in Tasks, SyncGet(t) PROVE AgreeInv'
  <2>1. /\ \/ /\ pc' = "put" /\ cur' = t /\ obj' = Got(t)
              /\ t \in Scheduled /\ row[t].pk = model[t].pk
           \/ UNCHANGED <<pc, cur, obj>>
        /\ pc = "sync"
        /\ UNCHANGED <<row, model, gap, cpc, form, polled, notice, ret>>
    BY <1>1, Zenon DEF SyncGet, Got
  <2>2. Behind => Behind'
    BY <2>1 DEF Behind, Reloading, Ending
  <2>3. CASE UNCHANGED <<pc, cur, obj>>
    BY <2>1, <2>2, <2>3, Agree_quiet DEF AgreeInv, AbsentOff
  <2>4. CASE /\ pc' = "put" /\ cur' = t /\ obj' = Got(t)
             /\ t \in Scheduled /\ row[t].pk = model[t].pk
    <3>1. /\ Got(t).pk = model[t].pk /\ Got(t).rev = row[t].rev
          /\ Got(t).enabled <=> row[t].enabled
      BY GotFields
    <3>2. obj'.pk # 0
      BY <2>4, <3>1 DEF Scheduled
    <3>3. AbsentOff'
      BY <2>1, <3>2, Zenon DEF AgreeInv, AbsentOff
    <3>4. ASSUME NEW u \in Tasks \ gap PROVE Behind' \/ Agree(u)'
      BY <2>1, <2>2, Zenon DEF AgreeInv, Agree
    <3>5. ObjAgrees'
      <4> SUFFICES ASSUME ~Behind', t \notin gap
                   PROVE  /\ Got(t).enabled <=> model[t].enabled
                          /\ Got(t).enabled => Got(t).pk = model[t].pk
                                               /\ Got(t).rev = model[t].rev
        BY <2>1, <2>4, Zenon DEF ObjAgrees
      <4>1. Agree(t)
        BY <2>2 DEF AgreeInv
      <4>2. QED
        BY <3>1, <4>1, Zenon DEF Agree
    <3>6. QED
      BY <2>1, <3>3, <3>4, <3>5, Zenon DEF AgreeInv
  <2>5. QED
    BY <2>1, <2>3, <2>4
<1>2. CASE SyncPut
  <2>1. /\ pc = "put" /\ pc' = "sync" /\ row' = [row EXCEPT ![cur] = Written(obj)]
        /\ notice => notice'
        /\ UNCHANGED <<model, gap, cpc, form, polled, ret>>
    BY <1>2, Zenon DEF SyncPut
  <2>2. cur \in Tasks /\ row \in [Tasks -> RowType]
    BY <2>1 DEF TypeOK
  <2>3. /\ Written(obj).pk = obj.pk /\ Written(obj).rev = obj.rev
        /\ Written(obj).enabled = obj.enabled
    BY Zenon DEF Written
  <2>4. /\ row'[cur] = Written(obj)
        /\ \A t \in Tasks \ {cur} : row'[t] = row[t]
    BY <2>1, <2>2
  <2>5. Behind => Behind'
    BY <2>1 DEF Behind, Reloading, Ending
  <2>6. obj.pk # 0
    BY <2>1 DEF AgreeInv, AbsentOff
  <2>7. AbsentOff'
    <3>1. ASSUME NEW t \in Tasks, row'[t].enabled PROVE row'[t].pk # 0
      <4>1. CASE t = cur
        BY <2>3, <2>4, <2>6, <4>1
      <4>2. CASE t # cur
        BY <2>4, <3>1, <4>2, Zenon DEF AgreeInv, AbsentOff
      <4>3. QED
        BY <4>1, <4>2
    <3>2. QED
      BY <2>1, <3>1, Zenon DEF AgreeInv, AbsentOff
  <2>8. ASSUME NEW t \in Tasks \ gap PROVE Behind' \/ Agree(t)'
    <3>1. CASE t = cur
      <4>1. Behind \/ /\ obj.enabled <=> model[cur].enabled
                      /\ obj.enabled => obj.pk = model[cur].pk /\ obj.rev = model[cur].rev
        BY <2>1, <2>8, <3>1 DEF AgreeInv, ObjAgrees
      <4>2. QED
        BY <2>1, <2>3, <2>4, <2>5, <3>1, <4>1, Zenon DEF Agree
    <3>2. CASE t # cur
      <4>1. row'[t] = row[t]
        BY <2>4, <3>2
      <4>2. QED
        BY <2>1, <2>5, <4>1, Zenon DEF AgreeInv, Agree
    <3>3. QED
      BY <3>1, <3>2
  <2>9. ObjAgrees'
    BY <2>1 DEF ObjAgrees
  <2>10. QED
    BY <2>1, <2>7, <2>8, <2>9, Zenon DEF AgreeInv
<1>3. ASSUME SyncRaises \/ SyncFails \/ SyncDone PROVE AgreeInv'
  <2>1. /\ pc \in {"sync", "put"}
        /\ pc' = "closing" \/ pc' = ret
        /\ UNCHANGED <<row, model, gap, cpc, form, polled, notice, ret>>
    BY <1>3, Zenon DEF SyncRaises, SyncFails, SyncDone, EndSync
  <2>2. ret # "put"
    BY DEF TypeOK
  <2>3. Behind => Behind'
    BY <2>1 DEF Behind, Reloading, Ending
  <2>4. QED
    BY <2>1, <2>2, <2>3, Agree_quiet DEF AgreeInv, AbsentOff
<1>4. QED
  BY <1>1, <1>2, <1>3

-----------------------------------------------------------------------------
(* The poll, the reload, and what tick() does with its entries.            *)

\* A poll that misses nothing: what was announced is going to be read.
LEMMA Agree_poll ==
  ASSUME TypeOK, AgreeInv, Access \/ PollFails
  PROVE  AgreeInv'
<1> USE DEF dbVars, clientVars, memoryVars, syncVars, history, pollVars
<1>1. CASE Access
  <2>1. /\ Decide(notice /\ polled) /\ pc = "access"
        /\ notice' = FALSE /\ polled' = TRUE
        /\ UNCHANGED <<row, model, gap, cpc, form, cur, obj>>
    BY <1>1, Zenon DEF Access
  <2>2. /\ pc' \in {"sync", "access", "run", "populate", "idle"}
        /\ pc' = "sync" => ret' = "load"
        /\ notice /\ polled => pc' = "sync"
    <3>1. notice /\ polled => pc' = "sync"
      BY <2>1, Zenon DEF Decide, BeginSync
    <3>2. QED
      BY <2>1, <3>1, TypeOK_decide
  <2>3. Behind => Behind'
    <3>1. Behind => (polled /\ notice) \/ (polled /\ cpc = "post")
      BY <2>1 DEF Behind, Reloading, Ending
    <3>2. notice /\ polled => Reloading'
      BY <2>2, Zenon DEF Reloading
    <3>3. cpc = "post" => Behind'
      BY <2>1, Zenon DEF Behind
    <3>4. QED
      BY <3>1, <3>2, <3>3, Zenon DEF Behind
  <2>4. QED
    BY <2>1, <2>2, <2>3, Agree_quiet DEF AgreeInv, AbsentOff
<1>2. CASE PollFails
  <2>1. /\ Decide(FALSE) /\ pc = "access"
        /\ UNCHANGED <<row, model, gap, cpc, form, cur, obj, notice, polled>>
    BY <1>2, Zenon DEF PollFails
  <2>2. pc' \in {"sync", "access", "run", "populate", "idle"}
    BY <2>1, TypeOK_decide
  <2>3. Behind => Behind'
    BY <2>1 DEF Behind, Reloading, Ending
  <2>4. QED
    BY <2>1, <2>2, <2>3, Agree_quiet DEF AgreeInv, AbsentOff
<1>3. QED
  BY <1>1, <1>2

\* A reload brings the instances in line with the rows.
LEMMA Agree_load ==
  ASSUME TypeOK, AgreeInv, Load
  PROVE  AgreeInv'
<1>1. /\ UNCHANGED <<row, cpc, form>>
      /\ pc' \in {"idle", "access", "run", "populate"}
  BY DEF Load, Continue, InSetup, dbVars, clientVars
<1>2. \A t \in Tasks : Agree(t)' /\ (model'[t].enabled => model'[t].pk # 0)
  BY LoadAgrees, Zenon DEF AgreeInv
<1>3. pc' # "put"
  BY <1>1
<1>4. AbsentOff'
  BY <1>1, <1>2, <1>3, Zenon DEF AgreeInv, AbsentOff
<1>5. QED
  BY <1>2, <1>3, <1>4, Zenon DEF AgreeInv, ObjAgrees

\* What is_due() does to one task: nothing, or it disables the row and the
\* instance.
LEMMA Agree_check ==
  ASSUME TypeOK, AgreeInv, NEW t \in Tasks, NEW run, Check(t, run),
         pc \in {"populate", "run"}, pc' \in {"populate", "idle"},
         UNCHANGED <<gap, cpc, form, polled>>
  PROVE  AgreeInv'
<1>1. \/ row' = row /\ model' = model
      \/ /\ model[t].enabled /\ ~row'[t].enabled /\ ~model'[t].enabled
         /\ row'[t].pk = model[t].pk
         /\ \A u \in Tasks \ {t} : row'[u] = row[u] /\ model'[u] = model[u]
  BY CheckDisables
<1>2. notice => notice'
  BY Zenon DEF Check
<1>3. Behind => Behind'
  <2>1. ~Reloading /\ ~Ending
    BY DEF Reloading, Ending
  <2>2. QED
    BY <1>2, <2>1, Zenon DEF Behind
<1>4. pc' # "put"
  OBVIOUS
<1>5. CASE row' = row /\ model' = model
  BY <1>3, <1>4, <1>5, Zenon DEF AgreeInv, AbsentOff, Agree, ObjAgrees
<1>6. CASE /\ ~row'[t].enabled /\ ~model'[t].enabled
           /\ \A u \in Tasks \ {t} : row'[u] = row[u] /\ model'[u] = model[u]
  <2>1. ASSUME NEW u \in Tasks
        PROVE  u = t \/ (row'[u] = row[u] /\ model'[u] = model[u])
    BY <1>6
  <2>2. AbsentOff'
    BY <1>4, <1>6, <2>1, Zenon DEF AgreeInv, AbsentOff
  <2>3. ASSUME NEW u \in Tasks \ gap PROVE Behind' \/ Agree(u)'
    BY <1>3, <1>6, <2>1, Zenon DEF AgreeInv, Agree
  <2>4. QED
    BY <1>4, <2>2, <2>3, Zenon DEF AgreeInv, ObjAgrees
<1>7. QED
  BY <1>1, <1>5, <1>6

\* The steps of tick() that look at one entry.
LEMMA Agree_run ==
  ASSUME TypeOK, AgreeInv, NEW t \in Tasks,
         \/ PopulateEntry(t) \/ PopulateRaises(t)
         \/ RunNotDue(t) \/ RunRaises(t) \/ RunDue(t)
  PROVE  AgreeInv'
<1> USE DEF dbVars, clientVars, pollVars, history
<1>1. CASE PopulateEntry(t)
  <2>1. /\ Check(t, scheduleRun[t]) /\ pc = "populate" /\ pc' = "populate"
        /\ UNCHANGED <<gap, cpc, form, polled>>
    BY <1>1, Zenon DEF PopulateEntry
  <2>2. QED
    BY <2>1, Agree_check
<1>2. CASE RunNotDue(t)
  <2>1. /\ Check(t, heapRun[t]) /\ pc = "run" /\ pc' = "idle"
        /\ UNCHANGED <<gap, cpc, form, polled>>
    BY <1>2, Zenon DEF RunNotDue
  <2>2. QED
    BY <2>1, Agree_check
<1>3. CASE PopulateRaises(t) \/ RunRaises(t)
  <2>1. PICK run : CheckRaises(t, run)
    BY <1>3, Zenon DEF PopulateRaises, RunRaises
  <2>2. /\ model' = [model EXCEPT ![t] = Checked(t, run)] /\ pc' = "closing"
        /\ UNCHANGED <<row, cpc, form>>
    BY <2>1, Zenon DEF CheckRaises
  <2>3. /\ model \in [Tasks -> ModelType]
        /\ Checked(t, run).enabled = FALSE \/ Checked(t, run) = model[t]
    BY CheckedType DEF TypeOK
  <2>4. ASSUME NEW u \in Tasks
        PROVE  model'[u] = model[u] \/ ~model'[u].enabled
    <3>1. model'[u] = model[u] \/ model'[u] = Checked(t, run)
      BY <2>2, <2>3
    <3>2. CASE u = t
      BY <2>2, <2>3, <3>2
    <3>3. CASE u # t
      BY <2>2, <2>3, <3>3
    <3>4. QED
      BY <3>2, <3>3
  <2>5. pc' # "put" /\ Behind'
    BY <2>2 DEF Behind, Ending
  <2>6. AbsentOff'
    BY <2>2, <2>4, <2>5, Zenon DEF AgreeInv, AbsentOff
  <2>7. QED
    BY <2>5, <2>6, Zenon DEF AgreeInv, ObjAgrees
<1>4. CASE RunDue(t)
  <2> DEFINE m == model[t]
             n == model[t].count + 1
             r == [m EXCEPT !.lastRun = now, !.count = n, !.noChanges = TRUE]
  <2>1. m \in ModelType /\ n \in Nat /\ now \in Int /\ TRUE \in BOOLEAN
    BY DEF TypeOK, ModelType
  <2>2. /\ model' = [model EXCEPT ![t] = r]
        /\ pc = "run" /\ pc' = "sent"
        /\ UNCHANGED <<row, gap, cpc, form, notice, polled>>
    BY <1>4, Zenon DEF RunDue, Reserve
  <2> HIDE DEF n
  <2>3. m = model[t]
    OBVIOUS
  <2> HIDE DEF m
  <2>4. r.pk = m.pk /\ r.rev = m.rev /\ (r.enabled <=> m.enabled)
    BY <2>1, RunFields
  <2> HIDE DEF r
  <2>5. ASSUME NEW u \in Tasks
        PROVE  model'[u] = model[u] \/ (u = t /\ model'[u] = r)
    BY <2>2 DEF TypeOK
  <2>6. ASSUME NEW u \in Tasks
        PROVE  /\ model'[u].pk = model[u].pk /\ model'[u].rev = model[u].rev
               /\ model'[u].enabled <=> model[u].enabled
    BY <2>3, <2>4, <2>5, Zenon
  <2>7. pc' # "put" /\ (Behind => Behind')
    BY <2>2 DEF Behind, Reloading, Ending
  <2>8. AbsentOff'
    BY <2>2, <2>6, <2>7, Zenon DEF AgreeInv, AbsentOff
  <2>9. ASSUME NEW u \in Tasks \ gap PROVE Behind' \/ Agree(u)'
    BY <2>2, <2>6, <2>7, Zenon DEF AgreeInv, Agree
  <2>10. QED
    BY <2>2, <2>7, <2>8, <2>9, Zenon DEF AgreeInv, ObjAgrees
<1>5. QED
  BY <1>1, <1>2, <1>3, <1>4

\* Every step keeps AgreeInv.
LEMMA Agree_next == TypeOK /\ AgreeInv /\ [Next]_vars => AgreeInv'
<1> SUFFICES ASSUME TypeOK, AgreeInv, [Next]_vars PROVE AgreeInv'
  OBVIOUS
<1> USE DEF dbVars, clientVars, memoryVars, pollVars, syncVars, history
<1>1. ASSUME \/ StartTick \/ PopulateDone \/ RunNothing \/ SyncAfterSend \/ Push
             \/ ServiceSync \/ Stop \/ Close \/ Kill \/ LoadFails
      PROVE  AgreeInv'
  <2>1. /\ UNCHANGED <<row, model, gap, cpc, form, polled, notice>>
        /\ UNCHANGED <<cur, obj>>
    BY <1>1, Zenon DEF StartTick, PopulateDone, RunNothing, SyncAfterSend, Push,
         ServiceSync, Stop, Close, Kill, LoadFails
  <2>2. CASE Kill \/ Stop \/ LoadFails
    <3>1. pc' # "put" /\ Behind'
      BY <2>2 DEF Kill, Stop, LoadFails, Behind, Ending
    <3>2. QED
      BY <2>1, <3>1, Agree_quiet, Zenon DEF AgreeInv, AbsentOff
  <2>3. CASE Close
    <3>1. pc' # "put" /\ Behind'
      BY <2>3 DEF Close, BeginSync, Behind, Ending
    <3>2. QED
      BY <2>1, <3>1, Agree_quiet, Zenon DEF AgreeInv, AbsentOff
  <2>4. CASE \/ StartTick \/ PopulateDone \/ RunNothing \/ SyncAfterSend \/ Push
             \/ ServiceSync
    <3>1. /\ pc \in {"idle", "populate", "run", "sent", "push"}
          /\ pc' \in {"access", "run", "idle", "sync"}
      BY <2>4 DEF StartTick, PopulateDone, RunNothing, SyncAfterSend, Push,
           ServiceSync, BeginSync
    <3>2. \/ pc # "push"
          \/ pc' = "idle"
      BY <2>4, <3>1 DEF StartTick, PopulateDone, RunNothing, SyncAfterSend, Push,
           ServiceSync, BeginSync
    <3>3. Behind => Behind'
      BY <2>1, <3>1 DEF Behind, Reloading, Ending
    <3>4. QED
      BY <2>1, <3>1, <3>3, Agree_quiet DEF AgreeInv, AbsentOff
  <2>5. QED
    BY <1>1, <2>2, <2>3, <2>4
<1>2. CASE Restart
  <2>1. /\ model' = [t \in Tasks |-> NoModel] /\ pc' = "load"
        /\ UNCHANGED <<row, cpc, form>>
    BY <1>2, Zenon DEF Restart
  <2>2. \A t \in Tasks : ~model'[t].enabled
    BY <2>1 DEF NoModel
  <2>3. pc' # "put" /\ Behind'
    BY <2>1 DEF Behind, Reloading
  <2>4. AbsentOff'
    BY <2>1, <2>2, <2>3, Zenon DEF AgreeInv, AbsentOff
  <2>5. QED
    BY <2>3, <2>4, Zenon DEF AgreeInv, ObjAgrees
<1>3. CASE UNCHANGED vars
  BY <1>3, Zenon DEF vars, AgreeInv, AbsentOff, Agree, ObjAgrees, Behind,
     Reloading, Ending
<1>4. QED
  BY <1>1, <1>2, <1>3, Agree_client, Agree_sync, Agree_poll, Agree_load, Agree_run
  DEF Next, BeatStep

\* Beat begins with a reload.
LEMMA Agree_init == Init => AgreeInv
<1> SUFFICES ASSUME Init PROVE AgreeInv
  OBVIOUS
<1>1. /\ model = [t \in Tasks |-> NoModel]
      /\ row = [t \in Tasks |-> [NoRow EXCEPT !.pk = 1, !.enabled = TRUE,
                                              !.changed = 1]]
      /\ cpc = "idle" /\ pc = "load"
  BY Zenon DEF Init
<1>2. \A t \in Tasks : ~model[t].enabled
  BY <1>1 DEF NoModel
<1>3. \A t \in Tasks : row[t].pk # 0
  <2>1. [NoRow EXCEPT !.pk = 1, !.enabled = TRUE, !.changed = 1].pk # 0
    BY DEF NoRow
  <2>2. QED
    BY <1>1, <2>1
<1>4. AbsentOff
  BY <1>1, <1>2, <1>3 DEF AbsentOff
<1>5. Behind /\ pc # "put"
  BY <1>1 DEF Behind, Reloading
<1>6. QED
  BY <1>4, <1>5, Zenon DEF AgreeInv, ObjAgrees

\* Whatever the client does, whatever fails, and in whatever order: when no
\* notice is on its way, beat runs exactly the enabled tasks, in their latest
\* revision.
THEOREM MemoryMatchesRowsHolds == Spec => []MemoryMatchesRows
<1>1. AgreeInv => MemoryMatchesRows
  <2> SUFFICES ASSUME AgreeInv, pc = "idle", ~notice, cpc # "post",
                      NEW t \in Tasks \ gap
               PROVE  Agree(t)
    BY Zenon DEF MemoryMatchesRows, Agree
  <2>1. ~Behind
    <3>1. ~Reloading /\ ~Ending
      BY DEF Reloading, Ending
    <3>2. QED
      BY <3>1, Zenon DEF Behind
  <2>2. QED
    BY <2>1, Zenon DEF AgreeInv
<1>2. QED
  BY <1>1, Agree_init, Agree_next, TypeCorrect, PTL DEF Spec

-----------------------------------------------------------------------------
(* What a beat that stops has saved.  A client that saves an old form puts *)
(* an old count back, a row made anew under its name makes sync() raise,   *)
(* and beat may be killed or its sync() fail; where none of this happens,  *)
(* the last sync saves whatever is left in _dirty.                         *)

\* Every row and instance has the first key of its name.
OneKey ==
  /\ \A t \in Tasks : row[t].pk \in {0, 1} /\ model[t].pk \in {0, 1}
  /\ cpc \notin {"form", "write"}
  /\ pc = "put" => obj.pk = 1

\* The sync of the finalizer, and what it has still to save.
LastSync == pc \in {"sync", "put"} /\ ret = "down"
Saving(t) == \/ pc \in {"sync", "put"} /\ t \in left
             \/ pc = "put" /\ t = cur

StopInv ==
  /\ OneKey
  /\ LastSync \/ pc = "down" =>
       \A t \in Scheduled : model[t].enabled /\ row[t].pk = model[t].pk
                              => row[t].count = model[t].count \/ Saving(t)

\* While beat is not about to go down there is nothing to show.
LEMMA Stop_awake ==
  ASSUME OneKey', ~LastSync', pc' # "down"
  PROVE  StopInv'
BY Zenon DEF StopInv

\* The client deletes rows, and changes no count.
LEMMA ClientKeepsCounts ==
  ASSUME "edit" \notin ClientOps, "create" \notin ClientOps,
         TypeOK, OneKey, Tick \/ ClientStep
  PROVE  /\ UNCHANGED <<model, dirty, pc, ret, left, cur, obj>>
         /\ cpc' \notin {"form", "write"}
         /\ \A t \in Tasks :
              row'[t] = NoRow \/ (row'[t].pk = row[t].pk /\ row'[t].count = row[t].count)
<1> USE DEF clientVars, memoryVars, syncVars, beatUnchanged
<1>1. CASE Tick
  BY <1>1 DEF Tick, dbVars, OneKey
<1>2. ASSUME NEW t \in Tasks, ClientGets(t) \/ ClientCreates(t) PROVE FALSE
  BY <1>2 DEF ClientGets, ClientCreates, ClientBegins
<1>3. ASSUME NEW t \in Tasks, ClientDeletes(t)
      PROVE  /\ row' = [row EXCEPT ![t] = NoRow] /\ cpc' = "post"
             /\ UNCHANGED <<model, dirty, pc, ret, left, cur, obj>>
  BY <1>3, Zenon DEF ClientDeletes
<1>4. ASSUME NEW o \in ClientOps, NEW S \in SUBSET Tasks, ClientUpdates(o, S)
      PROVE  /\ \A t \in Tasks : row'[t].pk = row[t].pk /\ row'[t].count = row[t].count
             /\ cpc' = "post" /\ UNCHANGED <<model, dirty, pc, ret, left, cur, obj>>
  <2>1. cpc' = "post" /\ UNCHANGED <<model, dirty, pc, ret, left, cur, obj>>
    BY <1>4, Zenon DEF ClientUpdates
  <2>2. QED
    BY <1>4, <2>1, UpdatesType
<1>5. CASE ClientSaves \/ ClientWrites
  BY <1>5 DEF ClientSaves, ClientWrites, OneKey
<1>6. CASE ClientPosts
  BY <1>6 DEF ClientPosts
<1>7. row \in [Tasks -> RowType]
  BY DEF TypeOK
<1>8. QED
  BY <1>1, <1>2, <1>3, <1>4, <1>5, <1>6, <1>7 DEF ClientStep

\* So what is left to save stays so.
LEMMA Stop_client ==
  ASSUME "edit" \notin ClientOps, "create" \notin ClientOps,
         TypeOK, StopInv, Tick \/ ClientStep
  PROVE  StopInv'
<1>1. /\ UNCHANGED <<model, pc, ret, left, cur, obj>>
      /\ cpc' \notin {"form", "write"}
      /\ \A t \in Tasks :
           row'[t] = NoRow \/ (row'[t].pk = row[t].pk /\ row'[t].count = row[t].count)
  BY ClientKeepsCounts DEF StopInv
<1>2. NoRow.pk = 0
  BY DEF NoRow
<1>3. OneKey'
  BY <1>1, <1>2 DEF StopInv, OneKey
<1>4. ASSUME NEW t \in Scheduled, row'[t].pk = model[t].pk
      PROVE  row'[t].pk = row[t].pk /\ row'[t].count = row[t].count
  BY <1>1, <1>2, <1>4 DEF Scheduled
<1>5. Scheduled' = Scheduled /\ \A t \in Tasks : Saving(t)' = Saving(t)
  BY <1>1 DEF Scheduled, Saving
<1>6. (LastSync \/ pc = "down")' = (LastSync \/ pc = "down")
  BY <1>1 DEF LastSync
<1>7. ASSUME (LastSync \/ pc = "down")', NEW t \in Scheduled',
             (model[t].enabled /\ row[t].pk = model[t].pk)'
      PROVE  (row[t].count = model[t].count \/ Saving(t))'
  <2>1. /\ row'[t].pk = row[t].pk /\ row'[t].count = row[t].count
        /\ model' = model /\ t \in Tasks /\ t \in Scheduled
    BY <1>1, <1>4, <1>5, <1>7 DEF Scheduled
  <2>2. model[t].enabled /\ row[t].pk = model[t].pk
    BY <1>7, <2>1
  <2>3. row[t].count = model[t].count \/ Saving(t)
    BY <1>6, <1>7, <2>1, <2>2, Zenon DEF StopInv
  <2>4. QED
    BY <1>5, <2>1, <2>3
<1>8. QED
  BY <1>3, <1>7, Zenon DEF StopInv

\* sync() saves what it has taken out of left.
LEMMA Stop_sync ==
  ASSUME SyncFails => ret # "down", TypeOK, DirtyInv, StopInv,
         \/ \E t \in Tasks : SyncGet(t)
         \/ SyncPut \/ SyncRaises \/ SyncFails \/ SyncDone
  PROVE  StopInv'
<1> USE DEF dbVars, clientVars, history, dbUnchangedBySync
<1>1. ASSUME NEW t \in Tasks, SyncGet(t) PROVE StopInv'
  <2>1. /\ pc = "sync" /\ t \in left /\ left' = left \ {t}
        /\ \/ /\ pc' = "put" /\ cur' = t /\ obj' = Got(t)
              /\ t \in Scheduled /\ row[t].pk = model[t].pk
           \/ UNCHANGED <<pc, cur, obj>> /\ ~(t \in Scheduled /\ row[t].pk = model[t].pk)
        /\ UNCHANGED <<row, model, cpc, ret>>
    BY <1>1, Zenon DEF SyncGet, Got
  <2>2. Got(t).pk = model[t].pk
    BY GotFields
  <2>3. OneKey'
    BY <2>1, <2>2 DEF StopInv, OneKey, Scheduled
  <2>4. ASSUME NEW u \in Scheduled, row[u].pk = model[u].pk, Saving(u)
        PROVE  Saving(u)'
    <3>1. u \in left
      BY <2>1, <2>4 DEF Saving
    <3>2. CASE u = t
      BY <2>1, <2>4, <3>2 DEF Saving
    <3>3. CASE u # t
      BY <2>1, <3>1, <3>3 DEF Saving
    <3>4. QED
      BY <3>2, <3>3
  <2>5. /\ Scheduled' = Scheduled
        /\ (LastSync \/ pc = "down")' => LastSync
    BY <2>1 DEF Scheduled, LastSync
  <2>6. ASSUME (LastSync \/ pc = "down")', NEW u \in Scheduled,
               model[u].enabled, row[u].pk = model[u].pk
        PROVE  row[u].count = model[u].count \/ Saving(u)'
    BY <2>4, <2>5, <2>6, Zenon DEF StopInv
  <2>7. QED
    BY <2>1, <2>3, <2>5, <2>6, Zenon DEF StopInv
<1>2. CASE SyncPut
  <2>1. /\ pc = "put" /\ pc' = "sync" /\ row' = [row EXCEPT ![cur] = Written(obj)]
        /\ UNCHANGED <<model, cpc, ret, left>>
    BY <1>2, Zenon DEF SyncPut
  <2>2. cur \in Tasks /\ row \in [Tasks -> RowType]
    BY <2>1 DEF TypeOK
  <2>3. /\ Written(obj).pk = obj.pk /\ Written(obj).count = obj.count
        /\ obj.pk = 1 /\ obj.count = model[cur].count
    BY <2>1 DEF Written, StopInv, OneKey, DirtyInv
  <2>4. /\ row'[cur] = Written(obj)
        /\ \A t \in Tasks \ {cur} : row'[t] = row[t]
    BY <2>1, <2>2
  <2>5. OneKey'
    <3>1. ASSUME NEW t \in Tasks PROVE row'[t].pk \in {0, 1}
      BY <2>3, <2>4 DEF StopInv, OneKey
    <3>2. QED
      BY <2>1, <3>1 DEF StopInv, OneKey
  <2>6. Scheduled' = Scheduled /\ ((LastSync \/ pc = "down")' => LastSync)
    BY <2>1 DEF Scheduled, LastSync
  <2>7. ASSUME (LastSync \/ pc = "down")', NEW t \in Scheduled,
               model[t].enabled, row'[t].pk = model[t].pk
        PROVE  row'[t].count = model[t].count \/ Saving(t)'
    <3>1. CASE t = cur
      BY <2>3, <2>4, <3>1
    <3>2. CASE t # cur
      <4>1. t \in Tasks /\ row'[t] = row[t]
        BY <2>4, <3>2 DEF Scheduled
      <4>2. row[t].count = model[t].count \/ Saving(t)
        BY <2>6, <2>7, <4>1, Zenon DEF StopInv
      <4>3. Saving(t) => Saving(t)'
        BY <2>1, <3>2 DEF Saving
      <4>4. QED
        BY <4>1, <4>2, <4>3
    <3>3. QED
      BY <3>1, <3>2
  <2>8. QED
    BY <2>1, <2>5, <2>6, <2>7, Zenon DEF StopInv
<1>3. CASE SyncRaises
  BY <1>3 DEF SyncRaises, StopInv, OneKey, TypeOK
<1>4. CASE SyncFails
  <2>1. pc' = ret /\ UNCHANGED <<row, model, cpc>>
    BY <1>4, Zenon DEF SyncFails
  <2>2. pc' \notin {"sync", "put"} /\ pc' # "put" /\ pc' # "down"
    BY <1>4, <2>1 DEF TypeOK
  <2>3. OneKey'
    BY <2>1, <2>2 DEF StopInv, OneKey
  <2>4. QED
    BY <2>2, <2>3, Stop_awake DEF LastSync
<1>5. CASE SyncDone
  <2>1. /\ pc = "sync" /\ left = {} /\ pc' = ret
        /\ UNCHANGED <<row, model, cpc, ret>>
    BY <1>5, Zenon DEF SyncDone, EndSync
  <2>2. pc' \notin {"sync", "put"} /\ (pc' = "down" => LastSync)
    BY <2>1 DEF TypeOK, LastSync
  <2>3. OneKey'
    BY <2>1, <2>2 DEF StopInv, OneKey
  <2>4. \A t \in Tasks : ~Saving(t)
    BY <2>1 DEF Saving
  <2>5. Scheduled' = Scheduled /\ ~LastSync'
    BY <2>1, <2>2 DEF Scheduled, LastSync
  <2>6. ASSUME pc' = "down", NEW t \in Scheduled,
               model[t].enabled, row[t].pk = model[t].pk
        PROVE  row[t].count = model[t].count
    <3>1. t \in Tasks
      BY DEF Scheduled
    <3>2. QED
      BY <2>2, <2>4, <2>6, <3>1, Zenon DEF StopInv
  <2>7. QED
    BY <2>1, <2>3, <2>5, <2>6, Zenon DEF StopInv
<1>6. QED
  BY <1>1, <1>2, <1>3, <1>4, <1>5

\* Beat runs and checks tasks while it is awake.
LEMMA Stop_run ==
  ASSUME TypeOK, StopInv,
         \/ Load
         \/ \E t \in Tasks : \/ PopulateEntry(t) \/ PopulateRaises(t)
                             \/ RunNotDue(t) \/ RunRaises(t) \/ RunDue(t)
  PROVE  StopInv'
<1> USE DEF dbVars, clientVars, syncVars
<1>1. CASE Load
  <2>1. /\ UNCHANGED <<row, cpc>>
        /\ pc' \in {"idle", "access", "run", "populate"}
    BY <1>1 DEF Load, Continue, InSetup
  <2>2. \A t \in Tasks : model'[t].pk \in {0, row[t].pk}
    BY <1>1, LoadType
  <2>3. OneKey'
    BY <2>1, <2>2 DEF StopInv, OneKey
  <2>4. QED
    BY <2>1, <2>3, Stop_awake DEF LastSync
<1>2. ASSUME NEW t \in Tasks, PopulateEntry(t) \/ RunNotDue(t) PROVE StopInv'
  <2>1. PICK run : Check(t, run)
    BY <1>2, Zenon DEF PopulateEntry, RunNotDue
  <2>2. /\ pc \in {"populate", "run"} /\ pc' \in {"populate", "idle"}
        /\ cpc' = cpc
    BY <1>2 DEF PopulateEntry, RunNotDue
  <2>3. \A u \in Tasks : row'[u].pk \in {row[u].pk, model[u].pk}
    BY <2>1, CheckType
  <2>4. \A u \in Tasks : model'[u].pk = model[u].pk
    BY <2>1, CheckKeepsKeys DEF Check
  <2>5. OneKey'
    BY <2>2, <2>3, <2>4 DEF StopInv, OneKey
  <2>6. QED
    BY <2>2, <2>5, Stop_awake DEF LastSync
<1>3. ASSUME NEW t \in Tasks, PopulateRaises(t) \/ RunRaises(t) PROVE StopInv'
  <2>1. PICK run : CheckRaises(t, run)
    BY <1>3, Zenon DEF PopulateRaises, RunRaises
  <2>2. /\ model' = [model EXCEPT ![t] = Checked(t, run)] /\ pc' = "closing"
        /\ UNCHANGED <<row, cpc>>
    BY <2>1, Zenon DEF CheckRaises
  <2>3. \A u \in Tasks : model'[u].pk = model[u].pk
    BY <2>2, CheckKeepsKeys
  <2>4. OneKey'
    BY <2>2, <2>3 DEF StopInv, OneKey
  <2>5. QED
    BY <2>2, <2>4, Stop_awake DEF LastSync
<1>4. ASSUME NEW t \in Tasks, RunDue(t) PROVE StopInv'
  <2> DEFINE m == model[t]
             n == model[t].count + 1
             r == [m EXCEPT !.lastRun = now, !.count = n, !.noChanges = TRUE]
  <2>1. m \in ModelType /\ n \in Nat /\ now \in Int
    BY DEF TypeOK, ModelType
  <2>2. /\ model' = [model EXCEPT ![t] = r] /\ pc' = "sent"
        /\ UNCHANGED <<row, cpc>>
    BY <1>4, Zenon DEF RunDue, Reserve
  <2> HIDE DEF n
  <2>3. r.pk = model[t].pk
    BY <2>1, ReservedType
  <2> HIDE DEF m, r
  <2>4. \A u \in Tasks : model'[u].pk = model[u].pk
    BY <2>2, <2>3 DEF TypeOK
  <2>5. OneKey'
    BY <2>2, <2>4 DEF StopInv, OneKey
  <2>6. QED
    BY <2>2, <2>5, Stop_awake DEF LastSync
<1>5. QED
  BY <1>1, <1>2, <1>3, <1>4

\* The last sync begins with all of _dirty.
LEMMA Stop_close ==
  ASSUME TypeOK, DirtyInv, StopInv, Close
  PROVE  StopInv'
<1>1. /\ pc \in {"closing", "exiting"} /\ pc' = "sync" /\ left' = dirty
      /\ UNCHANGED <<row, model, cpc>>
  BY DEF Close, BeginSync, dbVars, clientVars, memoryVars
<1>2. OneKey'
  BY <1>1 DEF StopInv, OneKey
<1>3. Scheduled' = Scheduled
  BY <1>1 DEF Scheduled
<1>4. ASSUME NEW t \in Scheduled, model[t].enabled, row[t].pk = model[t].pk
      PROVE  row[t].count = model[t].count \/ Saving(t)'
  <2>1. row[t].count = model[t].count \/ t \in dirty
    BY <1>1, <1>4 DEF DirtyInv, DirtyCoversRuns
  <2>2. t \in dirty => Saving(t)'
    BY <1>1 DEF Saving
  <2>3. QED
    BY <2>1, <2>2
<1>5. QED
  BY <1>1, <1>2, <1>3, <1>4, Zenon DEF StopInv

\* Every step keeps StopInv.
LEMMA Stop_next ==
  ASSUME "edit" \notin ClientOps, "create" \notin ClientOps, "kill" \notin FaultKinds
  PROVE  TypeOK /\ DirtyInv /\ StopInv /\ (SyncFails => ret # "down") /\ [Next]_vars
           => StopInv'
<1> SUFFICES ASSUME TypeOK, DirtyInv, StopInv, SyncFails => ret # "down", [Next]_vars
             PROVE  StopInv'
  OBVIOUS
<1> USE DEF dbVars, clientVars, memoryVars, syncVars
<1>1. CASE Access \/ PollFails
  <2>1. PICK changed : Decide(changed) /\ UNCHANGED <<row, model, cpc, obj>>
    BY <1>1, Zenon DEF Access, PollFails
  <2>2. /\ pc' \in {"sync", "access", "run", "populate", "idle"}
        /\ pc' = "sync" => ret' = "load"
    BY <2>1, TypeOK_decide
  <2>3. OneKey'
    BY <2>1, <2>2 DEF StopInv, OneKey
  <2>4. QED
    BY <2>2, <2>3, Stop_awake DEF LastSync
<1>2. CASE \/ StartTick \/ PopulateDone \/ RunNothing \/ SyncAfterSend \/ Push
           \/ ServiceSync \/ Stop \/ LoadFails
  <2>1. UNCHANGED <<row, model, cpc>>
    BY <1>2, Zenon DEF StartTick, PopulateDone, RunNothing, SyncAfterSend, Push,
         ServiceSync, Stop, LoadFails
  <2>2. \/ pc' = "sync" /\ ret' \in {"push", "idle"}
        \/ pc' \in {"access", "run", "idle", "closing"}
    BY <1>2 DEF StartTick, PopulateDone, RunNothing, SyncAfterSend, Push,
         ServiceSync, Stop, LoadFails, BeginSync
  <2>3. OneKey'
    BY <2>1, <2>2 DEF StopInv, OneKey
  <2>4. QED
    BY <2>2, <2>3, Stop_awake DEF LastSync
<1>3. CASE Restart
  <2>1. /\ model' = [t \in Tasks |-> NoModel] /\ pc' = "load"
        /\ UNCHANGED <<row, cpc>>
    BY <1>3, Zenon DEF Restart
  <2>2. OneKey'
    BY <2>1 DEF StopInv, OneKey, NoModel
  <2>3. QED
    BY <2>1, <2>2, Stop_awake DEF LastSync
<1>4. CASE Kill
  BY <1>4 DEF Kill, Fault
<1>5. CASE UNCHANGED vars
  BY <1>5, Zenon DEF vars, StopInv, OneKey, LastSync, Saving, Scheduled
<1>6. QED
  BY <1>1, <1>2, <1>3, <1>4, <1>5, Stop_client, Stop_sync, Stop_run, Stop_close
  DEF Next, BeatStep

\* Beat begins with nothing to save.
LEMMA Stop_init == Init => KeysInv /\ DirtyInv /\ StopInv
<1> SUFFICES ASSUME Init PROVE KeysInv /\ DirtyInv /\ StopInv
  OBVIOUS
<1>1. /\ model = [t \in Tasks |-> NoModel] /\ obj = NoModel
      /\ row = [t \in Tasks |-> [NoRow EXCEPT !.pk = 1, !.enabled = TRUE,
                                              !.changed = 1]]
      /\ nextPk = 2 /\ cpc = "idle" /\ pc = "load"
  BY Zenon DEF Init
<1>2. NoModel.pk = 0 /\ [NoRow EXCEPT !.pk = 1, !.enabled = TRUE, !.changed = 1].pk = 1
  BY DEF NoModel, NoRow
<1>3. /\ \A t \in Tasks : model[t].pk = 0 /\ row[t].pk = 1
      /\ obj.pk = 0 /\ nextPk = 2 /\ cpc = "idle" /\ pc = "load"
  BY <1>1, <1>2
<1>4. KeysInv
  BY <1>3 DEF KeysInv
<1>5. DirtyInv
  BY <1>3 DEF DirtyInv, DirtyCoversRuns, Scheduled
<1>6. StopInv
  BY <1>3 DEF StopInv, OneKey, LastSync
<1>7. QED
  BY <1>4, <1>5, <1>6

\* A beat that has stopped has nothing left to save.
LEMMA Stop_saves == StopInv => StopSavesRuns
<1> SUFFICES ASSUME StopInv, pc = "down", NEW t \in Scheduled,
                    model[t].enabled, row[t].pk = model[t].pk
             PROVE  row[t].count = model[t].count
  BY Zenon DEF StopSavesRuns
<1>1. ~Saving(t)
  BY DEF Saving
<1>2. QED
  BY <1>1, Zenon DEF StopInv

\* A beat that stops leaves every run in the database, whatever the expiries,
\* bulk updates, deletions, failed polls, failed reads, failed sends and failed
\* saves of ended tasks before.
THEOREM StopSavesRunsHolds ==
  ASSUME "edit" \notin ClientOps, "create" \notin ClientOps,
         "sync" \notin FaultKinds, "kill" \notin FaultKinds
  PROVE  Spec => []StopSavesRuns
<1>1. Init => KeysInv /\ DirtyInv /\ StopInv
  BY Stop_init
<1>2. ~SyncFails
  BY DEF SyncFails, Fault
<1>3. TypeOK /\ DirtyInv /\ StopInv /\ [Next]_vars => StopInv'
  BY <1>2, Stop_next
<1>4. QED
  BY <1>1, <1>3, Stop_saves, CountInv_next, TypeCorrect, PTL DEF Spec

-----------------------------------------------------------------------------
(* A one-off task runs once, and beat goes on, where the code says so: as  *)
(* long as rows are only enabled, disabled and toggled, no sync and no     *)
(* save fails, every task that is due can be sent, and beat is stopped,    *)
(* not killed.  Polls and reads of the table may fail.                     *)

\* Every row stays, and beat knows its key.
KeysKept ==
  /\ \A t \in Tasks : row[t].pk = 1 /\ model[t].pk \in {0, 1}
  /\ cpc \notin {"form", "write"}
  /\ pc = "put" => obj.pk = 1 /\ cur \in Scheduled

\* An instance knows how often its task has run, and so does its row, unless
\* the task is in _dirty.
RunsCounted ==
  /\ \A t \in Scheduled : ran[t] = model[t].count
  /\ \A t \in Tasks \ Scheduled : model[t].count = 0
  /\ \A t \in Tasks \ dirty : ran[t] = row[t].count
  /\ \A t \in OneOff : ran[t] <= 1

\* sync() forgets nothing: what is in _dirty has been saved, or is going to be;
\* and before the table is read again _dirty is empty.
SyncSaves ==
  /\ pc \in {"sync", "put"} =>
       /\ \A t \in saved : ran[t] = row[t].count
       /\ dirty \subseteq saved \cup left \cup {cur}
  /\ pc # "put" => cur = NoTask
  /\ pc = "put" => obj.count = model[cur].count
  /\ dirty \subseteq Scheduled
  /\ pc \in {"load", "down"} => dirty = {}

OnceInv == KeysKept /\ RunsCounted /\ SyncSaves

\* A step that changes no key and no count, and lets sync() be, or begins it.
LEMMA Once_quiet ==
  ASSUME OnceInv, UNCHANGED <<model, dirty, ran>>,
         cpc' \notin {"form", "write"},
         \A t \in Tasks : row'[t].pk = row[t].pk /\ row'[t].count = row[t].count,
         saved \subseteq Tasks,
         \/ UNCHANGED <<pc, saved, left, cur, obj>>
         \/ /\ pc \notin {"put", "down"} /\ cur' = cur
            /\ \/ pc' = "sync" /\ left' = dirty /\ saved' = {}
               \/ pc' \notin {"sync", "put", "load", "down"}
  PROVE  OnceInv'
<1>1. Scheduled' = Scheduled
  BY DEF Scheduled
<1>2. RunsCounted'
  BY <1>1 DEF OnceInv, RunsCounted
<1>3. CASE UNCHANGED <<pc, saved, left, cur, obj>>
  <2>1. KeysKept'
    BY <1>1, <1>3 DEF OnceInv, KeysKept
  <2>2. SyncSaves'
    BY <1>1, <1>3 DEF OnceInv, SyncSaves
  <2>3. QED
    BY <1>2, <2>1, <2>2 DEF OnceInv
<1>4. CASE /\ pc \notin {"put", "down"} /\ cur' = cur
           /\ \/ pc' = "sync" /\ left' = dirty /\ saved' = {}
              \/ pc' \notin {"sync", "put", "load", "down"}
  <2>1. KeysKept'
    BY <1>1, <1>4 DEF OnceInv, KeysKept
  <2>2. SyncSaves'
    BY <1>1, <1>4 DEF OnceInv, SyncSaves
  <2>3. QED
    BY <1>2, <2>1, <2>2 DEF OnceInv
<1>5. QED
  BY <1>3, <1>4

\* The client enables, disables and toggles.
LEMMA Once_client ==
  ASSUME ClientOps \subseteq {"enable", "disable", "toggle"},
         TypeOK, OnceInv, Tick \/ ClientStep
  PROVE  OnceInv'
<1> USE DEF clientVars, memoryVars, syncVars, history, beatUnchanged
<1>1. /\ UNCHANGED <<model, dirty, ran, pc, saved, left, cur, obj>>
      /\ cpc' \notin {"form", "write"}
      /\ \A t \in Tasks : row'[t].pk = row[t].pk /\ row'[t].count = row[t].count
  <2>1. CASE Tick
    BY <2>1 DEF Tick, dbVars, OnceInv, KeysKept
  <2>2. ASSUME NEW t \in Tasks, ClientGets(t) \/ ClientCreates(t) \/ ClientDeletes(t)
        PROVE  FALSE
    BY <2>2 DEF ClientGets, ClientCreates, ClientDeletes, ClientBegins
  <2>3. ASSUME NEW o \in ClientOps, NEW S \in SUBSET Tasks, ClientUpdates(o, S)
        PROVE  /\ \A t \in Tasks : row'[t].pk = row[t].pk /\ row'[t].count = row[t].count
               /\ cpc' = "post" /\ UNCHANGED <<model, dirty, ran, pc, saved, left, cur, obj>>
    <3>1. cpc' = "post" /\ UNCHANGED <<model, dirty, ran, pc, saved, left, cur, obj>>
      BY <2>3, Zenon DEF ClientUpdates
    <3>2. QED
      BY <2>3, <3>1, UpdatesType
  <2>4. CASE ClientSaves \/ ClientWrites
    BY <2>4 DEF ClientSaves, ClientWrites, OnceInv, KeysKept
  <2>5. CASE ClientPosts
    BY <2>5 DEF ClientPosts
  <2>6. QED
    BY <2>1, <2>2, <2>3, <2>4, <2>5 DEF ClientStep
<1>2. saved \subseteq Tasks
  BY DEF TypeOK
<1>3. QED
  BY <1>1, <1>2, Once_quiet

\* sync() saves the runs of every entry in _dirty.
LEMMA Once_sync ==
  ASSUME "sync" \notin FaultKinds, TypeOK, OnceInv,
         \/ \E t \in Tasks : SyncGet(t)
         \/ SyncPut \/ SyncRaises \/ SyncFails \/ SyncDone
  PROVE  OnceInv'
<1> USE DEF dbVars, clientVars, history, dbUnchangedBySync
<1>1. ASSUME NEW t \in Tasks, SyncGet(t) PROVE OnceInv'
  <2>1. /\ pc = "sync" /\ t \in left /\ left' = left \ {t}
        /\ \/ pc' = "put" /\ cur' = t /\ obj' = Got(t) /\ t \in Scheduled
           \/ UNCHANGED <<pc, cur, obj>> /\ ~(t \in Scheduled /\ row[t].pk = model[t].pk)
        /\ UNCHANGED <<row, model, cpc, dirty, ran, saved>>
    BY <1>1, Zenon DEF SyncGet, Got
  <2>2. Got(t).pk = model[t].pk /\ Got(t).count = model[t].count
    BY GotType
  <2>3. Scheduled' = Scheduled
    BY <2>1 DEF Scheduled
  <2>4. t \in Scheduled => row[t].pk = model[t].pk /\ model[t].pk = 1
    BY DEF OnceInv, KeysKept, Scheduled
  <2>5. KeysKept'
    BY <2>1, <2>2, <2>3, <2>4 DEF OnceInv, KeysKept
  <2>6. RunsCounted'
    BY <2>1, <2>3 DEF OnceInv, RunsCounted
  <2>7. /\ cur = NoTask /\ dirty \subseteq Scheduled /\ Scheduled \subseteq Tasks
        /\ dirty \subseteq saved \cup left \cup {cur}
        /\ \A u \in saved : ran[u] = row[u].count
    BY <2>1 DEF OnceInv, SyncSaves, Scheduled
  <2>8. NoTask \notin dirty
    BY <2>7, TasksAssumption
  <2>9. CASE pc' = "put" /\ cur' = t /\ obj' = Got(t)
    <3>1. dirty' \subseteq saved' \cup left' \cup {cur'}
      BY <2>1, <2>7, <2>8, <2>9
    <3>2. obj'.count = model'[cur'].count
      BY <2>1, <2>2, <2>9
    <3>3. SyncSaves'
      BY <2>1, <2>3, <2>7, <2>9, <3>1, <3>2 DEF SyncSaves
    <3>4. QED
      BY <2>5, <2>6, <3>3 DEF OnceInv
  <2>10. CASE /\ UNCHANGED <<pc, cur, obj>>
              /\ ~(t \in Scheduled /\ row[t].pk = model[t].pk)
    <3>1. t \notin dirty
      BY <2>4, <2>7, <2>10
    <3>2. dirty' \subseteq saved' \cup left' \cup {cur'}
      BY <2>1, <2>7, <2>8, <2>10, <3>1
    <3>3. SyncSaves'
      BY <2>1, <2>3, <2>7, <2>10, <3>2 DEF SyncSaves
    <3>4. QED
      BY <2>5, <2>6, <3>3 DEF OnceInv
  <2>11. QED
    BY <2>1, <2>9, <2>10
<1>2. CASE SyncPut
  <2>1. /\ pc = "put" /\ pc' = "sync" /\ row' = [row EXCEPT ![cur] = Written(obj)]
        /\ saved' = saved \cup {cur} /\ cur' = NoTask
        /\ UNCHANGED <<model, cpc, dirty, ran, left>>
    BY <1>2, Zenon DEF SyncPut
  <2>2. /\ cur \in Scheduled /\ cur \in Tasks /\ row \in [Tasks -> RowType]
        /\ saved \subseteq Tasks
    BY <2>1 DEF TypeOK, OnceInv, KeysKept
  <2>3. /\ Written(obj).pk = 1 /\ Written(obj).count = ran[cur]
    BY <2>1, <2>2 DEF Written, OnceInv, KeysKept, RunsCounted, SyncSaves
  <2>4. /\ row'[cur] = Written(obj)
        /\ \A t \in Tasks \ {cur} : row'[t] = row[t]
    BY <2>1, <2>2
  <2>5. Scheduled' = Scheduled
    BY <2>1 DEF Scheduled
  <2>6. KeysKept'
    BY <2>1, <2>3, <2>4 DEF OnceInv, KeysKept
  <2>7. RunsCounted'
    BY <2>1, <2>3, <2>4, <2>5 DEF OnceInv, RunsCounted
  <2>8. \A t \in saved' : ran[t] = row'[t].count
    BY <2>1, <2>2, <2>3, <2>4 DEF OnceInv, SyncSaves
  <2>9. SyncSaves'
    BY <2>1, <2>2, <2>5, <2>8 DEF OnceInv, SyncSaves
  <2>10. QED
    BY <2>6, <2>7, <2>9 DEF OnceInv
<1>3. CASE SyncRaises
  BY <1>3 DEF SyncRaises, OnceInv, KeysKept, TypeOK
<1>4. CASE SyncFails
  BY <1>4 DEF SyncFails, Fault
<1>5. CASE SyncDone
  <2>1. /\ pc = "sync" /\ left = {} /\ pc' = ret /\ dirty' = dirty \ saved
        /\ cur' = NoTask /\ UNCHANGED <<row, model, cpc, ran>>
    BY <1>5, Zenon DEF SyncDone, EndSync
  <2>2. dirty' = {}
    BY <2>1, TasksAssumption DEF OnceInv, SyncSaves, TypeOK
  <2>3. pc' \notin {"sync", "put"}
    BY <2>1 DEF TypeOK
  <2>4. Scheduled' = Scheduled
    BY <2>1 DEF Scheduled
  <2>5. KeysKept'
    BY <2>1, <2>3 DEF OnceInv, KeysKept
  <2>6. RunsCounted'
    BY <2>1, <2>2, <2>4 DEF OnceInv, RunsCounted, SyncSaves
  <2>7. SyncSaves'
    BY <2>1, <2>2, <2>3 DEF SyncSaves
  <2>8. QED
    BY <2>5, <2>6, <2>7 DEF OnceInv
<1>6. QED
  BY <1>1, <1>2, <1>3, <1>4, <1>5

\* A reload takes every count from the table.
LEMMA Once_load ==
  ASSUME TypeOK, OnceInv, Load
  PROVE  OnceInv'
<1>1. /\ UNCHANGED <<row, cpc, dirty, ran, cur>> /\ pc = "load"
      /\ pc' \in {"idle", "access", "run", "populate"}
  BY DEF Load, Continue, InSetup, dbVars, clientVars
<1>2. dirty = {} /\ cur = NoTask
  BY <1>1 DEF OnceInv, SyncSaves
<1>3. ASSUME NEW t \in Tasks
      PROVE  /\ model'[t].pk \in {0, row[t].pk}
             /\ model'[t].pk = 0 \/ model'[t].count = row[t].count
  BY <1>2, LoadType
<1>4. ASSUME NEW t \in Tasks, model'[t].pk = 0 PROVE model'[t].count = 0
  <2> DEFINE fresh == {u \in Tasks : row[u].pk # 0 /\ row[u].enabled}
  <2>1. t \notin fresh
    BY <1>4, LoadType
  <2>2. model'[t] = NoModel
    BY <2>1, Zenon DEF Load
  <2>3. QED
    BY <2>2 DEF NoModel
<1>5. KeysKept'
  BY <1>1, <1>3 DEF OnceInv, KeysKept
<1>6. RunsCounted'
  BY <1>1, <1>2, <1>3, <1>4 DEF OnceInv, RunsCounted, Scheduled
<1>7. SyncSaves'
  BY <1>1, <1>2 DEF SyncSaves
<1>8. QED
  BY <1>5, <1>6, <1>7 DEF OnceInv

\* is_due() writes nothing, or writes the count of the instance, or ends a
\* one-off task.
LEMMA CheckCounts ==
  ASSUME TypeOK, NEW t \in Tasks, NEW run, Check(t, run)
  PROVE  /\ \A u \in Tasks \ {t} : row'[u] = row[u] /\ model'[u] = model[u]
                                   /\ ran'[u] = ran[u]
         /\ model'[t].pk = model[t].pk
         /\ \/ row' = row /\ model' = model /\ ran' = ran
            \/ /\ model[t].enabled /\ row'[t].pk = model[t].pk
               /\ row'[t].count = model'[t].count
               /\ \/ model'[t].count = model[t].count /\ ran'[t] = ran[t]
                  \/ model'[t].count = 0 /\ ran'[t] = 0
<1>1. model' = [model EXCEPT ![t] = Checked(t, run)]
  BY Zenon DEF Check
<1>2. /\ model \in [Tasks -> ModelType] /\ row \in [Tasks -> RowType]
      /\ ran \in [Tasks -> Nat] /\ model[t] \in ModelType
  BY DEF TypeOK
<1>3. model'[t] = Checked(t, run) /\ Checked(t, run).pk = model[t].pk
  BY <1>1, <1>2, CheckedType
<1>4. ASSUME Verdict(t, run) \in {"expired", "spent"} PROVE model[t].enabled
  BY <1>4 DEF Verdict
<1>5. CASE Verdict(t, run) = "expired"
  <2> DEFINE m == model[t]
             m1 == [m EXCEPT !.enabled = FALSE]
             m2 == [m1 EXCEPT !.lastRun = 0]
             m3 == [m2 EXCEPT !.noChanges = TRUE]
  <2>1. Checked(t, run) = m3
    BY <1>5, Zenon DEF Checked
  <2>2. m \in ModelType /\ m.count = model[t].count
    BY <1>2
  <2> HIDE DEF m
  <2>3. m1 \in ModelType /\ m1.count = m.count
    BY <2>2, SetEnabled
  <2> HIDE DEF m1
  <2>4. m2 \in ModelType /\ m2.count = m1.count
    BY <2>3, SetLastRun
  <2> HIDE DEF m2
  <2>5. m3.count = m2.count
    BY <2>4, SetNoChanges
  <2> HIDE DEF m3
  <2>6. Checked(t, run).count = model[t].count
    BY <2>1, <2>2, <2>3, <2>4, <2>5
  <2>7. row' = [row EXCEPT ![t] = Written(Checked(t, run))] /\ ran' = ran
    BY <1>5, Zenon DEF Check
  <2>8. /\ Written(Checked(t, run)).pk = model[t].pk
        /\ Written(Checked(t, run)).count = model[t].count
    BY <1>3, <2>6, Zenon DEF Written
  <2>9. QED
    BY <1>1, <1>2, <1>3, <1>4, <1>5, <2>6, <2>7, <2>8
<1>6. CASE Verdict(t, run) = "spent"
  <2> DEFINE r == row[t]
             s == [r EXCEPT !.enabled = FALSE, !.lastRun = 0, !.count = 0, !.changed = now]
             m == model[t]
             e == [m EXCEPT !.enabled = FALSE, !.lastRun = 0, !.count = 0,
                            !.noChanges = FALSE]
  <2>1. /\ row' = [row EXCEPT ![t] = s] /\ r.pk = model[t].pk
        /\ ran' = [ran EXCEPT ![t] = 0]
    BY <1>6, "spent" # "expired", Zenon DEF Check
  <2>2. Checked(t, run) = e
    BY <1>6, "spent" # "expired", Zenon DEF Checked
  <2>3. r \in RowType /\ m \in ModelType
    BY <1>2
  <2> HIDE DEF r, m
  <2>4. s.count = 0 /\ s.pk = r.pk
    BY <2>3 DEF RowType
  <2>5. e.count = 0
    BY <2>3 DEF ModelType
  <2> HIDE DEF s, e
  <2>6. QED
    BY <1>1, <1>2, <1>3, <1>4, <1>6, <2>1, <2>2, <2>4, <2>5
<1>7. CASE Verdict(t, run) \notin {"expired", "spent"}
  BY <1>1, <1>2, <1>7 DEF Check, Checked
<1>8. QED
  BY <1>5, <1>6, <1>7

\* A look at an entry keeps the counts equal.
LEMMA Once_check ==
  ASSUME TypeOK, AbsentOff, OnceInv, NEW t \in Tasks, NEW run, Check(t, run),
         pc \in {"populate", "run"}, pc' \in {"populate", "idle"},
         UNCHANGED <<cpc, dirty, cur>>
  PROVE  OnceInv'
<1>1. /\ \A u \in Tasks \ {t} : row'[u] = row[u] /\ model'[u] = model[u]
                                /\ ran'[u] = ran[u]
      /\ model'[t].pk = model[t].pk
      /\ \/ row' = row /\ model' = model /\ ran' = ran
         \/ /\ model[t].enabled /\ row'[t].pk = model[t].pk
            /\ row'[t].count = model'[t].count
            /\ \/ model'[t].count = model[t].count /\ ran'[t] = ran[t]
               \/ model'[t].count = 0 /\ ran'[t] = 0
  BY CheckCounts
<1>2. model[t].enabled => t \in Scheduled
  BY DEF AbsentOff, Scheduled
<1>3. Scheduled' = Scheduled
  BY <1>1 DEF Scheduled
<1>4. KeysKept'
  BY <1>1, <1>2, <1>3 DEF OnceInv, KeysKept, Scheduled
<1>5. RunsCounted'
  <2>1. CASE row' = row /\ model' = model /\ ran' = ran
    BY <1>3, <2>1 DEF OnceInv, RunsCounted
  <2>2. CASE /\ t \in Scheduled /\ row'[t].count = model'[t].count
             /\ \/ model'[t].count = model[t].count /\ ran'[t] = ran[t]
                \/ model'[t].count = 0 /\ ran'[t] = 0
    <3>1. ran'[t] = model'[t].count /\ ran'[t] = row'[t].count
      BY <2>2 DEF OnceInv, RunsCounted
    <3>2. t \in OneOff => ran'[t] <= 1
      BY <2>2 DEF OnceInv, RunsCounted
    <3>3. QED
      BY <1>1, <1>3, <2>2, <3>1, <3>2, TasksAssumption DEF OnceInv, RunsCounted, Scheduled
  <2>3. QED
    BY <1>1, <1>2, <2>1, <2>2
<1>6. SyncSaves'
  BY <1>3 DEF OnceInv, SyncSaves
<1>7. QED
  BY <1>4, <1>5, <1>6 DEF OnceInv

\* The steps of tick() that look at one entry.
LEMMA Once_run ==
  ASSUME "save" \notin FaultKinds, "send" \notin FaultKinds,
         TypeOK, AbsentOff, OnceInv, NEW t \in Tasks,
         \/ PopulateEntry(t) \/ PopulateRaises(t)
         \/ RunNotDue(t) \/ RunRaises(t) \/ RunDue(t)
  PROVE  OnceInv'
<1> USE DEF dbVars, clientVars, syncVars, history
<1>1. CASE PopulateEntry(t)
  <2>1. /\ Check(t, scheduleRun[t]) /\ pc = "populate" /\ pc' = "populate"
        /\ UNCHANGED <<cpc, dirty, cur>>
    BY <1>1, Zenon DEF PopulateEntry
  <2>2. QED
    BY <2>1, Once_check
<1>2. CASE RunNotDue(t)
  <2>1. /\ Check(t, heapRun[t]) /\ pc = "run" /\ pc' = "idle"
        /\ UNCHANGED <<cpc, dirty, cur>>
    BY <1>2, Zenon DEF RunNotDue
  <2>2. QED
    BY <2>1, Once_check
<1>3. CASE PopulateRaises(t) \/ RunRaises(t)
  <2>1. PICK run : CheckRaises(t, run) /\ pc \in {"populate", "run"}
    BY <1>3, Zenon DEF PopulateRaises, RunRaises
  <2>2. /\ model' = [model EXCEPT ![t] = Checked(t, run)] /\ pc' = "closing"
        /\ UNCHANGED <<row, cpc, dirty, ran, cur>>
    BY <2>1, Zenon DEF CheckRaises
  <2>3. Verdict(t, run) = "broken"
    <3>1. Verdict(t, run) \in {"expired", "spent"} => row[t].pk = model[t].pk
      <4>1. Verdict(t, run) \in {"expired", "spent"} => model[t].enabled
        BY DEF Verdict
      <4>2. model[t].enabled => model[t].pk = 1 /\ row[t].pk = 1
        BY DEF AbsentOff, OnceInv, KeysKept
      <4>3. QED
        BY <4>1, <4>2
    <3>2. QED
      BY <2>1, <3>1 DEF CheckRaises, Fault
  <2>4. model' = model
    BY <2>2, <2>3 DEF Checked, TypeOK
  <2>5. cpc' \notin {"form", "write"} /\ saved \subseteq Tasks
    BY <2>2 DEF OnceInv, KeysKept, TypeOK
  <2>6. QED
    BY <2>1, <2>2, <2>4, <2>5, Once_quiet
<1>4. CASE RunDue(t)
  <2> DEFINE m == model[t]
             n == model[t].count + 1
             m1 == [m EXCEPT !.lastRun = now]
             m2 == [m1 EXCEPT !.count = n]
             m3 == [m2 EXCEPT !.noChanges = TRUE]
  <2>1. m \in ModelType /\ n \in Nat /\ now \in Int /\ m.pk = model[t].pk
    BY DEF TypeOK, ModelType
  <2>2. /\ model' = [model EXCEPT ![t] = m3] /\ dirty' = dirty \cup {t}
        /\ pc = "run" /\ pc' = "sent"
        /\ UNCHANGED <<row, cpc, cur>>
    BY <1>4, Zenon DEF RunDue, Reserve
  <2>3. ran' = [ran EXCEPT ![t] = @ + 1]
    BY <1>4 DEF RunDue, Fault
  <2>4. Verdict(t, heapRun[t]) = "due"
    BY <1>4 DEF RunDue
  <2>5. model[t].enabled /\ ~(t \in OneOff /\ model[t].count > 0)
    BY <2>4 DEF Verdict
  <2>6. n = model[t].count + 1
    OBVIOUS
  <2> HIDE DEF m, n
  <2>7. m1 \in ModelType /\ m1.pk = m.pk
    BY <2>1, SetLastRun
  <2> HIDE DEF m1
  <2>8. m2 \in ModelType /\ m2.pk = m1.pk /\ m2.count = n
    BY <2>1, <2>7, SetCount
  <2> HIDE DEF m2
  <2>9. m3.pk = m2.pk /\ m3.count = m2.count
    BY <2>8, SetNoChanges
  <2> HIDE DEF m3
  <2>10. /\ model'[t].pk = model[t].pk /\ model'[t].count = model[t].count + 1
         /\ ran'[t] = ran[t] + 1
         /\ \A u \in Tasks \ {t} : model'[u] = model[u] /\ ran'[u] = ran[u]
    BY <2>1, <2>2, <2>3, <2>6, <2>7, <2>8, <2>9 DEF TypeOK
  <2>11. t \in Scheduled /\ Scheduled' = Scheduled
    BY <2>5, <2>10 DEF AbsentOff, Scheduled
  <2>12. KeysKept'
    BY <2>2, <2>10, <2>11 DEF OnceInv, KeysKept
  <2>13. RunsCounted'
    <3>1. /\ \A u \in Scheduled : ran'[u] = model'[u].count
          /\ \A u \in Tasks \ Scheduled : model'[u].count = 0
      BY <2>10, <2>11 DEF OnceInv, RunsCounted, Scheduled
    <3>2. \A u \in Tasks \ dirty' : ran'[u] = row'[u].count
      BY <2>2, <2>10 DEF OnceInv, RunsCounted
    <3>3. ASSUME NEW u \in OneOff PROVE ran'[u] <= 1
      <4>1. CASE u = t
        <5>1. model[t].count = 0
          BY <2>1, <2>5, <3>3, <4>1 DEF TypeOK, ModelType
        <5>2. QED
          BY <2>10, <2>11, <4>1, <5>1 DEF OnceInv, RunsCounted
      <4>2. CASE u # t
        BY <2>10, <3>3, <4>2, TasksAssumption DEF OnceInv, RunsCounted
      <4>3. QED
        BY <4>1, <4>2
    <3>4. QED
      BY <2>11, <3>1, <3>2, <3>3 DEF RunsCounted
  <2>14. SyncSaves'
    BY <2>2, <2>11 DEF OnceInv, SyncSaves
  <2>15. QED
    BY <2>12, <2>13, <2>14 DEF OnceInv
<1>5. QED
  BY <1>1, <1>2, <1>3, <1>4

\* Every step keeps OnceInv.
LEMMA Once_next ==
  ASSUME ClientOps \subseteq {"enable", "disable", "toggle"},
         FaultKinds \subseteq {"poll", "load", "stop"}
  PROVE  TypeOK /\ AgreeInv /\ OnceInv /\ [Next]_vars => OnceInv'
<1> SUFFICES ASSUME TypeOK, AgreeInv, OnceInv, [Next]_vars PROVE OnceInv'
  OBVIOUS
<1> USE DEF dbVars, clientVars, memoryVars, syncVars, history
<1>1. saved \subseteq Tasks /\ cpc \notin {"form", "write"}
  BY DEF TypeOK, OnceInv, KeysKept
<1>2. CASE Access \/ PollFails
  <2>1. PICK changed : Decide(changed) /\ pc = "access"
                       /\ UNCHANGED <<row, model, cpc, dirty, ran, cur>>
    BY <1>2, Zenon DEF Access, PollFails
  <2>2. \/ pc' = "sync" /\ left' = dirty /\ saved' = {}
        \/ pc' \in {"access", "run", "populate", "idle"}
    BY <2>1 DEF Decide, BeginSync, Continue, InSetup
  <2>3. QED
    BY <1>1, <2>1, <2>2, Once_quiet
<1>3. CASE \/ StartTick \/ PopulateDone \/ RunNothing \/ SyncAfterSend \/ Push
           \/ ServiceSync \/ Stop \/ Close \/ LoadFails
  <2>1. UNCHANGED <<row, model, cpc, dirty, ran, cur>>
    BY <1>3, Zenon DEF StartTick, PopulateDone, RunNothing, SyncAfterSend, Push,
         ServiceSync, Stop, Close, LoadFails
  <2>2. /\ pc \notin {"put", "down"}
        /\ \/ pc' = "sync" /\ left' = dirty /\ saved' = {}
           \/ pc' \in {"access", "run", "idle", "closing"}
    BY <1>3 DEF StartTick, PopulateDone, RunNothing, SyncAfterSend, Push,
         ServiceSync, Stop, Close, LoadFails, BeginSync
  <2>3. QED
    BY <1>1, <2>1, <2>2, Once_quiet
<1>4. CASE Restart
  <2>1. /\ model' = [t \in Tasks |-> NoModel] /\ pc = "down" /\ pc' = "load"
        /\ dirty' = {} /\ cur' = NoTask /\ UNCHANGED <<row, cpc, ran>>
    BY <1>4, Zenon DEF Restart
  <2>2. \A t \in Tasks : model'[t].pk = 0 /\ model'[t].count = 0
    BY <2>1 DEF NoModel
  <2>3. KeysKept'
    BY <1>1, <2>1, <2>2 DEF OnceInv, KeysKept
  <2>4. RunsCounted'
    BY <2>1, <2>2 DEF OnceInv, RunsCounted, SyncSaves, Scheduled
  <2>5. SyncSaves'
    BY <2>1 DEF SyncSaves
  <2>6. QED
    BY <2>3, <2>4, <2>5 DEF OnceInv
<1>5. CASE Kill
  BY <1>5 DEF Kill, Fault
<1>6. CASE UNCHANGED vars
  <2>1. UNCHANGED <<row, model, cpc, dirty, ran, pc, saved, left, cur, obj>>
    BY <1>6, Zenon DEF vars
  <2>2. QED
    BY <1>1, <2>1, Once_quiet
<1>7. /\ AbsentOff /\ "sync" \notin FaultKinds
      /\ "save" \notin FaultKinds /\ "send" \notin FaultKinds
  BY DEF AgreeInv
<1>8. QED
  BY <1>2, <1>3, <1>4, <1>5, <1>6, <1>7, Once_client, Once_sync, Once_load, Once_run
  DEF Next, BeatStep

\* At the start nothing has run.
LEMMA Once_init == Init => OnceInv
<1> SUFFICES ASSUME Init PROVE OnceInv
  OBVIOUS
<1>1. /\ model = [t \in Tasks |-> NoModel] /\ dirty = {} /\ cur = NoTask
      /\ row = [t \in Tasks |-> [NoRow EXCEPT !.pk = 1, !.enabled = TRUE,
                                              !.changed = 1]]
      /\ ran = [t \in Tasks |-> 0] /\ cpc = "idle" /\ pc = "load"
  BY Zenon DEF Init
<1>2. /\ NoModel.pk = 0 /\ NoModel.count = 0
      /\ [NoRow EXCEPT !.pk = 1, !.enabled = TRUE, !.changed = 1].pk = 1
      /\ [NoRow EXCEPT !.pk = 1, !.enabled = TRUE, !.changed = 1].count = 0
  BY DEF NoModel, NoRow
<1>3. /\ \A t \in Tasks : /\ model[t].pk = 0 /\ model[t].count = 0 /\ ran[t] = 0
                          /\ row[t].pk = 1 /\ row[t].count = 0
      /\ OneOff \subseteq Tasks
  BY <1>1, <1>2, TasksAssumption
<1>4. KeysKept /\ RunsCounted /\ SyncSaves
  BY <1>1, <1>3 DEF KeysKept, RunsCounted, SyncSaves, Scheduled
<1>5. QED
  BY <1>4 DEF OnceInv

\* Beat ends a one-off task when it has been sent exactly once: however its
\* row is enabled, disabled and toggled meanwhile, whatever polls and reads
\* fail, and wherever beat is stopped and started again.
THEOREM OneOffRunsOnceHolds ==
  ASSUME ClientOps \subseteq {"enable", "disable", "toggle"},
         FaultKinds \subseteq {"poll", "load", "stop"}
  PROVE  Spec => OneOffRunsOnce
<1> DEFINE Once == \A t \in OneOff : EndsOneOff(t) => ran[t] = 1
<1>1. Init => OnceInv /\ AgreeInv
  BY Once_init, Agree_init
<1>2. TypeOK /\ OnceInv => Once
  <2> SUFFICES ASSUME TypeOK, OnceInv, NEW t \in OneOff, EndsOneOff(t)
               PROVE  ran[t] = 1
    BY Zenon
  <2>1. t \in Tasks /\ model[t].count > 0
    BY TasksAssumption DEF EndsOneOff
  <2>2. t \in Scheduled
    BY <2>1 DEF OnceInv, RunsCounted
  <2>3. ran[t] = model[t].count /\ ran[t] <= 1 /\ ran[t] \in Nat
    BY <2>1, <2>2 DEF OnceInv, RunsCounted, TypeOK
  <2>4. QED
    BY <2>1, <2>3
<1>3. TypeOK /\ OnceInv => [Once]_vars
  BY <1>2
<1>4. Spec => [][Once]_vars
  BY <1>1, <1>3, Once_next, Agree_next, TypeCorrect, PTL DEF Spec
<1>5. QED
  BY <1>4, Zenon DEF OneOffRunsOnce

-----------------------------------------------------------------------------
(* Beat goes on.  0 stands for None, so that thirty years before a change  *)
(* must not be 0: the clock stays below them.                              *)

\* An entry that is_due() is asked of has a last_run_at, and so has the
\* instance that is pushed back on the heap.
Sending == pc \in {"sent", "push"} \/ Syncing("push")

EntriesDated ==
  /\ \A t \in Tasks : model[t].enabled => scheduleRun[t] # 0
  /\ \A t \in heap : model[t].enabled => heapRun[t] # 0
  /\ pc = "load" /\ at = "boot" => heap = {}

Dated ==
  /\ now \in 1..MaxTime
  /\ \A t \in Tasks : row[t].changed \in 1..MaxTime
  /\ EntriesDated
  /\ Sending => model[popped].lastRun # 0

\* A step that builds no entry.
LEMMA Dated_quiet ==
  ASSUME Dated, now' \in 1..MaxTime,
         \A t \in Tasks : row'[t].changed \in 1..MaxTime,
         UNCHANGED scheduleRun,
         \A t \in Tasks : model'[t].enabled => model[t].enabled,
         heap' \subseteq heap, heap \subseteq Tasks,
         \A t \in heap' : heapRun'[t] = heapRun[t],
         Sending' => \/ Sending /\ UNCHANGED <<model, popped>>
                     \/ model'[popped'].lastRun # 0,
         pc' = "load" /\ at' = "boot" => heap' = {}
  PROVE  Dated'
<1>1. EntriesDated'
  BY Zenon DEF Dated, EntriesDated
<1>2. Sending' => model'[popped'].lastRun # 0
  BY DEF Dated
<1>3. QED
  BY <1>1, <1>2 DEF Dated

\* The admin's actions leave date_changed alone.
LEMMA UpdatesKeepDates ==
  ASSUME TypeOK, NEW o, NEW S, ClientUpdates(o, S), NEW t \in Tasks
  PROVE  row'[t].changed = row[t].changed
<1> DEFINE r == row[t]
           r1 == [r EXCEPT !.enabled = FALSE]
           r2 == [r1 EXCEPT !.lastRun = 0]
           r3 == [r EXCEPT !.enabled = TRUE]
           r4 == [r EXCEPT !.enabled = ~r.enabled]
<1>1. r \in RowType
  BY DEF TypeOK
<1>2. row'[t] \in {r, r2, r3, r4}
  BY Zenon DEF ClientUpdates
<1> HIDE DEF r
<1>3. r1.changed = r.changed /\ r1 \in RowType
  BY <1>1 DEF RowType
<1>4. r3.changed = r.changed /\ r4.changed = r.changed
  BY <1>1 DEF RowType
<1> HIDE DEF r1
<1>5. r2.changed = r1.changed
  BY <1>3 DEF RowType
<1> HIDE DEF r2, r3, r4
<1>6. QED
  BY <1>2, <1>3, <1>4, <1>5 DEF r

\* The client moves no date back to None.
LEMMA Dated_client ==
  ASSUME ClientOps \subseteq {"enable", "disable", "toggle"},
         TypeOK, HeapInv, OnceInv, Dated, Tick \/ ClientStep
  PROVE  Dated'
<1> USE DEF clientVars, memoryVars, heapVars, history, beatUnchanged
<1>1. /\ UNCHANGED <<model, scheduleRun, heap, heapRun, pc, at, ret, popped>>
      /\ heap \subseteq Tasks
  BY DEF TypeOK, Tick, ClientStep, ClientGets, ClientCreates, ClientDeletes,
       ClientUpdates, ClientSaves, ClientWrites, ClientPosts, syncVars
<1>2. now' \in 1..MaxTime /\ \A t \in Tasks : row'[t].changed \in 1..MaxTime
  <2>1. CASE Tick
    BY <2>1, BoundsAssumption DEF Tick, dbVars, Dated
  <2>2. ASSUME NEW t \in Tasks, ClientGets(t) \/ ClientCreates(t) \/ ClientDeletes(t)
        PROVE  FALSE
    BY <2>2 DEF ClientGets, ClientCreates, ClientDeletes, ClientBegins
  <2>3. ASSUME NEW o \in ClientOps, NEW S \in SUBSET Tasks, ClientUpdates(o, S)
        PROVE  now' = now /\ \A t \in Tasks : row'[t].changed = row[t].changed
    <3>1. now' = now
      BY <2>3, Zenon DEF ClientUpdates
    <3>2. QED
      BY <2>3, <3>1, UpdatesKeepDates
  <2>4. CASE ClientSaves \/ ClientWrites
    BY <2>4 DEF ClientSaves, ClientWrites, OnceInv, KeysKept
  <2>5. CASE ClientPosts
    BY <2>5 DEF ClientPosts, Dated
  <2>6. QED
    BY <2>1, <2>2, <2>3, <2>4, <2>5 DEF ClientStep, Dated
<1>3. Sending' => Sending /\ UNCHANGED <<model, popped>>
  BY <1>1 DEF Sending, Syncing
<1>4. pc' = "load" /\ at' = "boot" => heap' = {}
  BY <1>1 DEF Dated, EntriesDated
<1>5. QED
  BY <1>1, <1>2, <1>3, <1>4, Dated_quiet

\* sync() saves dates that are there.
LEMMA Dated_sync ==
  ASSUME TypeOK, HeapInv, Dated,
         \/ \E t \in Tasks : SyncGet(t)
         \/ SyncPut \/ SyncRaises \/ SyncFails \/ SyncDone
  PROVE  Dated'
<1>1. /\ UNCHANGED <<now, model, scheduleRun, heap, heapRun, at, ret, popped>>
      /\ pc \in {"sync", "put"} /\ pc' \in {"sync", "put", "closing", ret}
      /\ heap \subseteq Tasks
  BY DEF SyncGet, SyncPut, SyncRaises, SyncFails, SyncDone, EndSync,
       dbUnchangedBySync, heapVars, TypeOK
<1>2. \A t \in Tasks : row'[t].changed \in 1..MaxTime
  <2>1. CASE SyncPut
    <3>1. row' = [row EXCEPT ![cur] = Written(obj)]
      BY <2>1 DEF SyncPut
    <3>2. Written(obj).changed = now
      BY DEF Written
    <3>3. row \in [Tasks -> RowType]
      BY DEF TypeOK
    <3>4. QED
      BY <3>1, <3>2, <3>3 DEF Dated
  <2>2. CASE ~SyncPut
    <3>1. row' = row
      BY <2>2 DEF SyncGet, SyncRaises, SyncFails, SyncDone, dbVars
    <3>2. QED
      BY <3>1 DEF Dated
  <2>3. QED
    BY <2>1, <2>2
<1>3. Sending' => Sending /\ UNCHANGED <<model, popped>>
  BY <1>1 DEF Sending, Syncing, TypeOK
<1>4. pc' = "load" /\ at' = "boot" => heap' = {}
  BY <1>1 DEF HeapInv, Syncing
<1>5. now' \in 1..MaxTime
  BY <1>1 DEF Dated
<1>6. QED
  BY <1>1, <1>2, <1>3, <1>4, <1>5, Dated_quiet

\* A poll builds no entry, and may empty the heap.
LEMMA Dated_poll ==
  ASSUME TypeOK, Dated, NEW changed, Decide(changed),
         UNCHANGED <<now, row, model, scheduleRun>>
  PROVE  Dated'
<1>1. /\ pc' \in {"sync", "access", "run", "populate", "idle"}
      /\ pc' = "sync" => ret' = "load"
      /\ heap \subseteq Tasks
  BY TypeOK_decide DEF TypeOK
<1>2. heap' = {} \/ UNCHANGED <<heap, heapRun>>
  BY DEF Decide, Continue, InSetup, EmptyHeap, heapVars
<1>3. ~Sending'
  BY <1>1 DEF Sending, Syncing
<1>4. now' \in 1..MaxTime /\ \A t \in Tasks : row'[t].changed \in 1..MaxTime
  BY DEF Dated
<1>5. heap' \subseteq heap /\ \A t \in heap' : heapRun'[t] = heapRun[t]
  BY <1>2
<1>6. \A t \in Tasks : model'[t].enabled => model[t].enabled
  BY Zenon
<1>7. QED
  BY <1>1, <1>3, <1>4, <1>5, <1>6, Dated_quiet

\* A reload gives every entry a last_run_at: there is nothing in _dirty that
\* it would take one from.
LEMMA Dated_load ==
  ASSUME LongBack > MaxTime, TypeOK, OnceInv, Dated, Load
  PROVE  Dated'
<1> DEFINE fresh == {u \in Tasks : row[u].pk # 0 /\ row[u].enabled}
<1>1. /\ dirty = {} /\ row' = row /\ now' = now
      /\ pc' \in {"idle", "access", "run", "populate"}
      /\ heap' = {} \/ (pc = "load" /\ at = "boot" /\ heap' = heap)
  BY DEF OnceInv, SyncSaves, Load, Continue, InSetup, dbVars, EmptyHeap, heapVars
<1>2. model' = [t \in Tasks |-> IF t \notin fresh THEN NoModel ELSE Fresh(t)]
  BY <1>1 DEF Load
<1>3. scheduleRun' = [t \in Tasks |-> model'[t].lastRun]
  BY DEF Load
<1>4. ASSUME NEW t \in Tasks PROVE Fresh(t).lastRun # 0
  <2> DEFINE r == row[t]
  <2>1. r.changed \in 1..MaxTime
    BY DEF Dated
  <2>2. r.changed # 0 /\ r.changed - LongBack # 0
    BY <2>1, BoundsAssumption, DelaysAssumption
  <2>3. QED
    BY <2>2 DEF Fresh
<1>5. ASSUME NEW t \in Tasks, model'[t].enabled PROVE scheduleRun'[t] # 0
  <2>1. t \in fresh
    BY <1>2, <1>5, Zenon DEF NoModel
  <2>2. model'[t] = Fresh(t)
    BY <1>2, <2>1
  <2>3. QED
    BY <1>3, <1>4, <2>2
<1>6. heap' = {}
  BY <1>1 DEF Dated, EntriesDated
<1>7. EntriesDated'
  BY <1>5, <1>6, Zenon DEF EntriesDated
<1>8. ~Sending'
  BY <1>1 DEF Sending, Syncing
<1>9. now' \in 1..MaxTime /\ \A t \in Tasks : row'[t].changed \in 1..MaxTime
  BY <1>1 DEF Dated
<1>10. QED
  BY <1>7, <1>8, <1>9 DEF Dated

\* is_due() dates what it writes, and enables nothing.
LEMMA CheckDates ==
  ASSUME TypeOK, Dated, NEW t \in Tasks, NEW run, Check(t, run)
  PROVE  /\ \A u \in Tasks : row'[u].changed \in 1..MaxTime
         /\ \A u \in Tasks : model'[u].enabled => model[u].enabled
<1>1. ASSUME NEW u \in Tasks, model'[u].enabled PROVE model[u].enabled
  BY <1>1, CheckDisables, Zenon
<1>2. ASSUME NEW u \in Tasks PROVE row'[u].changed \in 1..MaxTime
  <2> DEFINE r == row[t]
             s == [r EXCEPT !.enabled = FALSE, !.lastRun = 0, !.count = 0, !.changed = now]
             w == Written(Checked(t, run))
  <2>1. row' = [row EXCEPT ![t] = w] \/ row' = [row EXCEPT ![t] = s] \/ row' = row
    <3>1. CASE Verdict(t, run) = "expired"
      BY <3>1, Zenon DEF Check
    <3>2. CASE Verdict(t, run) = "spent"
      BY <3>2, "spent" # "expired", Zenon DEF Check
    <3>3. CASE Verdict(t, run) \notin {"expired", "spent"}
      BY <3>3 DEF Check
    <3>4. QED
      BY <3>1, <3>2, <3>3
  <2>2. r \in RowType /\ row \in [Tasks -> RowType]
    BY DEF TypeOK
  <2>3. w.changed = now
    BY DEF Written
  <2> HIDE DEF r, w
  <2>4. s.changed = now
    BY <2>2 DEF RowType
  <2> HIDE DEF s
  <2>5. QED
    BY <2>1, <2>2, <2>3, <2>4 DEF Dated
<1>3. QED
  BY <1>1, <1>2

\* The steps of tick() that look at one entry.
LEMMA Dated_run ==
  ASSUME TypeOK, Dated, NEW t \in Tasks,
         PopulateEntry(t) \/ RunNotDue(t) \/ RunDue(t)
  PROVE  Dated'
<1>1. CASE PopulateEntry(t)
  <2>1. /\ Check(t, scheduleRun[t]) /\ heap' = heap \cup {t}
        /\ heapRun' = [heapRun EXCEPT ![t] = scheduleRun[t]]
        /\ pc = "populate" /\ UNCHANGED <<now, scheduleRun, pc>>
    BY <1>1, Zenon DEF PopulateEntry
  <2>2. /\ \A u \in Tasks : row'[u].changed \in 1..MaxTime
        /\ \A u \in Tasks : model'[u].enabled => model[u].enabled
    BY <2>1, CheckDates
  <2>3. heapRun \in [Tasks -> Int] /\ heap \subseteq Tasks
    BY DEF TypeOK
  <2>4. /\ heapRun'[t] = scheduleRun[t]
        /\ \A u \in heap \ {t} : heapRun'[u] = heapRun[u]
    BY <2>1, <2>3
  <2>5. EntriesDated'
    <3>1. ASSUME NEW u \in heap', model'[u].enabled PROVE heapRun'[u] # 0
      <4>1. u \in Tasks /\ model[u].enabled
        BY <2>1, <2>2, <2>3, <3>1
      <4>2. CASE u = t
        BY <2>4, <4>1, <4>2, Zenon DEF Dated, EntriesDated
      <4>3. CASE u # t
        <5>1. u \in heap /\ heapRun'[u] = heapRun[u]
          BY <2>1, <2>4, <3>1, <4>3
        <5>2. QED
          BY <4>1, <5>1, Zenon DEF Dated, EntriesDated
      <4>4. QED
        BY <4>2, <4>3
    <3>2. pc' # "load"
      BY <2>1
    <3>3. \A u \in Tasks : model'[u].enabled => scheduleRun'[u] # 0
      BY <2>1, <2>2, Zenon DEF Dated, EntriesDated
    <3>4. QED
      BY <3>1, <3>2, <3>3, Zenon DEF EntriesDated
  <2>6. ~Sending'
    BY <2>1 DEF Sending, Syncing
  <2>7. now' \in 1..MaxTime
    BY <2>1 DEF Dated
  <2>8. QED
    BY <2>2, <2>5, <2>6, <2>7 DEF Dated
<1>2. CASE RunNotDue(t)
  <2>1. /\ Check(t, heapRun[t]) /\ pc' = "idle"
        /\ UNCHANGED <<now, scheduleRun, heap, heapRun>>
    BY <1>2, Zenon DEF RunNotDue
  <2>2. /\ \A u \in Tasks : row'[u].changed \in 1..MaxTime
        /\ \A u \in Tasks : model'[u].enabled => model[u].enabled
    BY <2>1, CheckDates
  <2>3. ~Sending' /\ pc' # "load"
    BY <2>1 DEF Sending, Syncing
  <2>4. heap \subseteq Tasks /\ now' \in 1..MaxTime
    BY <2>1 DEF TypeOK, Dated
  <2>5. QED
    BY <2>1, <2>2, <2>3, <2>4, Dated_quiet
<1>3. CASE RunDue(t)
  <2> DEFINE m == model[t]
             n == model[t].count + 1
             m1 == [m EXCEPT !.lastRun = now]
             m2 == [m1 EXCEPT !.count = n]
             m3 == [m2 EXCEPT !.noChanges = TRUE]
  <2>1. m \in ModelType /\ n \in Nat /\ now \in Int /\ m = model[t]
    BY DEF TypeOK, ModelType
  <2>2. /\ model' = [model EXCEPT ![t] = m3] /\ popped' = t /\ pc' = "sent"
        /\ heap' = heap \ {t} /\ heapRun' = [heapRun EXCEPT ![t] = 0]
        /\ UNCHANGED <<now, row, scheduleRun>>
    BY <1>3, Zenon DEF RunDue, Reserve, dbVars
  <2>3. Verdict(t, heapRun[t]) = "due"
    BY <1>3 DEF RunDue
  <2>4. model[t].enabled
    BY <2>3 DEF Verdict
  <2> HIDE DEF m, n
  <2>5. m1 \in ModelType /\ m1.lastRun = now
    BY <2>1 DEF ModelType
  <2> HIDE DEF m1
  <2>6. m2 \in ModelType /\ m2.lastRun = m1.lastRun
    BY <2>1, <2>5 DEF ModelType
  <2> HIDE DEF m2
  <2>7. m3.lastRun = m2.lastRun
    BY <2>6 DEF ModelType
  <2> HIDE DEF m3
  <2>8. model'[t].lastRun = now /\ \A u \in Tasks \ {t} : model'[u] = model[u]
    BY <2>2, <2>5, <2>6, <2>7 DEF TypeOK
  <2>9. model'[popped'].lastRun # 0
    BY <2>2, <2>8 DEF Dated
  <2>10. \A u \in Tasks : model'[u].enabled => model[u].enabled
    BY <2>4, <2>8, Zenon
  <2>11. heapRun \in [Tasks -> Int] /\ heap \subseteq Tasks
    BY DEF TypeOK
  <2>12. heap' \subseteq heap /\ \A u \in heap' : heapRun'[u] = heapRun[u]
    BY <2>2, <2>11
  <2>13. now' \in 1..MaxTime /\ \A u \in Tasks : row'[u].changed \in 1..MaxTime
    BY <2>2 DEF Dated
  <2>14. QED
    BY <2>2, <2>9, <2>10, <2>11, <2>12, <2>13, Dated_quiet
<1>4. QED
  BY <1>1, <1>2, <1>3

\* No look at an entry raises, and no save of sync() does.
LEMMA Never_raises ==
  ASSUME "save" \notin FaultKinds, TypeOK, AbsentOff, OnceInv, Dated,
         \/ \E t \in Tasks : PopulateRaises(t) \/ RunRaises(t)
         \/ SyncRaises
  PROVE  FALSE
<1>1. ASSUME NEW t \in Tasks, PopulateRaises(t) \/ RunRaises(t) PROVE FALSE
  <2>1. PICK run : CheckRaises(t, run) /\ (model[t].enabled => run # 0)
    <3>1. CASE PopulateRaises(t)
      BY <3>1, Zenon DEF PopulateRaises, Dated, EntriesDated
    <3>2. CASE RunRaises(t)
      BY <3>2, Zenon DEF RunRaises, Top, Dated, EntriesDated
    <3>3. QED
      BY <1>1, <3>1, <3>2
  <2>2. Verdict(t, run) = "broken" => model[t].enabled /\ run = 0
    BY DEF Verdict
  <2>3. Verdict(t, run) \in {"expired", "spent"} => model[t].enabled
    BY DEF Verdict
  <2>4. model[t].enabled => model[t].pk = 1 /\ row[t].pk = 1
    BY DEF AbsentOff, OnceInv, KeysKept
  <2>5. Verdict(t, run) \in {"expired", "spent"} => row[t].pk = model[t].pk
    BY <2>3, <2>4
  <2>6. Verdict(t, run) = "broken"
    BY <2>1, <2>5 DEF CheckRaises, Fault
  <2>7. QED
    BY <2>1, <2>2, <2>6, Zenon
<1>2. CASE SyncRaises
  BY <1>2 DEF SyncRaises, OnceInv, KeysKept, TypeOK
<1>3. QED
  BY <1>1, <1>2

\* Every step keeps the dates.
LEMMA Dated_next ==
  ASSUME ClientOps \subseteq {"enable", "disable", "toggle"},
         FaultKinds \subseteq {"poll", "load", "stop"}, LongBack > MaxTime
  PROVE  TypeOK /\ HeapInv /\ AgreeInv /\ OnceInv /\ Dated /\ [Next]_vars => Dated'
<1> SUFFICES ASSUME TypeOK, HeapInv, AgreeInv, OnceInv, Dated, [Next]_vars
             PROVE  Dated'
  OBVIOUS
<1>1. /\ AbsentOff /\ "save" \notin FaultKinds /\ heap \subseteq Tasks
      /\ now \in 1..MaxTime /\ \A t \in Tasks : row[t].changed \in 1..MaxTime
  BY DEF AgreeInv, TypeOK, Dated
<1>2. CASE Access \/ PollFails
  <2>1. PICK changed : Decide(changed)
    BY <1>2, Zenon DEF Access, PollFails
  <2>2. UNCHANGED <<now, row, model, scheduleRun>>
    BY <1>2 DEF Access, PollFails, dbVars, memoryVars
  <2>3. QED
    BY <2>1, <2>2, Dated_poll
<1>3. CASE Push
  <2>1. /\ Sending /\ heap' = heap \cup {popped} /\ pc' = "idle"
        /\ heapRun' = [heapRun EXCEPT ![popped] = model[popped].lastRun]
        /\ UNCHANGED <<now, row, model, scheduleRun>>
    BY <1>3 DEF Push, Sending, dbVars, memoryVars
  <2>2. heapRun \in [Tasks -> Int] /\ popped \in Tasks
    BY <2>1 DEF TypeOK, Sending, Syncing
  <2>3. heapRun'[popped] # 0 /\ \A t \in heap \ {popped} : heapRun'[t] = heapRun[t]
    BY <1>1, <2>1, <2>2 DEF Dated
  <2>4. \A t \in heap' : model'[t].enabled => heapRun'[t] # 0
    <3>1. ASSUME NEW t \in heap' \ {popped} PROVE t \in heap /\ heapRun'[t] = heapRun[t]
      BY <2>1, <2>3
    <3>2. QED
      BY <2>1, <2>3, <3>1, Zenon DEF Dated, EntriesDated
  <2>5. pc' # "load" /\ ~Sending'
    BY <2>1 DEF Sending, Syncing
  <2>6. EntriesDated'
    BY <2>1, <2>4, <2>5, Zenon DEF Dated, EntriesDated
  <2>7. QED
    BY <1>1, <2>1, <2>5, <2>6 DEF Dated
<1>4. CASE \/ StartTick \/ PopulateDone \/ RunNothing \/ SyncAfterSend
           \/ ServiceSync \/ Stop \/ Kill \/ Close \/ LoadFails \/ UNCHANGED vars
  <2>1. UNCHANGED <<now, row, model, scheduleRun, heap, heapRun, popped>>
    BY <1>4 DEF StartTick, PopulateDone, RunNothing, SyncAfterSend, ServiceSync,
         Stop, Kill, Close, LoadFails, vars, dbVars, memoryVars, heapVars
  <2>2. Sending' => Sending
    BY <1>4 DEF StartTick, PopulateDone, RunNothing, SyncAfterSend, ServiceSync,
         Stop, Kill, Close, LoadFails, BeginSync, vars, syncVars, Sending, Syncing
  <2>3. pc' = "load" /\ at' = "boot" => heap' = {}
    BY <1>4, <2>1 DEF StartTick, PopulateDone, RunNothing, SyncAfterSend, ServiceSync,
         Stop, Kill, Close, LoadFails, BeginSync, vars, Dated, EntriesDated
  <2>4. \A t \in Tasks : model'[t].enabled => model[t].enabled
    BY <2>1, Zenon
  <2>5. QED
    BY <1>1, <2>1, <2>2, <2>3, <2>4, Dated_quiet
<1>5. CASE Restart
  <2>1. /\ model' = [t \in Tasks |-> NoModel] /\ heap' = {} /\ pc' = "load"
        /\ UNCHANGED <<now, row>>
    BY <1>5 DEF Restart, EmptyHeap, dbVars
  <2>2. ~NoModel.enabled
    BY DEF NoModel
  <2>3. \A t \in Tasks : ~model'[t].enabled
    BY <2>1, <2>2, Zenon
  <2>4. EntriesDated' /\ ~Sending'
    BY <2>1, <2>3 DEF EntriesDated, Sending, Syncing
  <2>5. QED
    BY <1>1, <2>1, <2>4 DEF Dated
<1>6. QED
  BY <1>1, <1>2, <1>3, <1>4, <1>5, Dated_client, Dated_sync, Dated_load, Dated_run,
     Never_raises
  DEF Next, BeatStep

\* No reload, retry or restart leads beat to an entry without last_run_at, or
\* to a row that is not the one it knows, on which is_due() or sync() would
\* raise and end it.
THEOREM OnlyFaultsEndBeatHolds ==
  ASSUME ClientOps \subseteq {"enable", "disable", "toggle"},
         FaultKinds \subseteq {"poll", "load", "stop"},
         MaxTime > 0, LongBack > MaxTime
  PROVE  Spec => OnlyFaultsEndBeat
<1> DEFINE Step == pc' = "closing" /\ pc # "closing" => faults' = faults + 1
           Inv == TypeOK /\ HeapInv /\ AgreeInv /\ OnceInv /\ Dated
<1>1. Init => HeapInv /\ AgreeInv /\ OnceInv /\ Dated
  <2> SUFFICES ASSUME Init PROVE HeapInv /\ Dated
    BY Agree_init, Once_init
  <2>1. /\ model = [t \in Tasks |-> NoModel] /\ heap = {} /\ pc = "load" /\ now = 1
        /\ row = [t \in Tasks |-> [NoRow EXCEPT !.pk = 1, !.enabled = TRUE,
                                                !.changed = 1]]
        /\ heapNone = TRUE
    BY Zenon DEF Init
  <2>2. ~NoModel.enabled
    BY DEF NoModel
  <2>3. [NoRow EXCEPT !.pk = 1, !.enabled = TRUE, !.changed = 1].changed = 1
    BY DEF NoRow
  <2>4. \A t \in Tasks : ~model[t].enabled
    BY <2>1, <2>2, Zenon
  <2>5. EntriesDated /\ ~Sending
    BY <2>1, <2>4 DEF EntriesDated, Sending, Syncing
  <2>6. 1 \in 1..MaxTime
    BY BoundsAssumption
  <2>7. \A t \in Tasks : row[t].changed \in 1..MaxTime
    BY <2>1, <2>3, <2>6
  <2>8. HeapInv
    BY <2>1 DEF HeapInv, Syncing
  <2>9. QED
    BY <2>1, <2>5, <2>6, <2>7, <2>8 DEF Dated
<1>2. Inv /\ [Next]_vars => [Step]_vars
  <2> SUFFICES ASSUME Inv, [Next]_vars, pc' = "closing", pc # "closing"
               PROVE  faults' = faults + 1
    BY Zenon
  <2>1. AbsentOff /\ "save" \notin FaultKinds
    BY DEF AgreeInv
  <2>2. CASE LoadFails \/ Stop
    BY <2>2 DEF LoadFails, Stop, Fault
  <2>3. CASE Access \/ PollFails
    <3>1. PICK changed : Decide(changed)
      BY <2>3, Zenon DEF Access, PollFails
    <3>2. QED
      BY <3>1, TypeOK_decide
  <2>4. CASE Tick \/ ClientStep
    BY <2>4 DEF Tick, ClientStep, ClientGets, ClientCreates, ClientDeletes,
         ClientUpdates, ClientSaves, ClientWrites, ClientPosts, beatUnchanged
  <2>5. CASE (\E t \in Tasks : SyncGet(t)) \/ SyncPut \/ SyncFails \/ SyncDone
    BY <2>5 DEF SyncGet, SyncPut, SyncFails, SyncDone, TypeOK
  <2>6. CASE \E t \in Tasks : PopulateEntry(t) \/ RunNotDue(t) \/ RunDue(t)
    BY <2>6 DEF PopulateEntry, RunNotDue, RunDue
  <2>7. CASE \/ StartTick \/ Load \/ PopulateDone \/ RunNothing \/ SyncAfterSend
             \/ Push \/ ServiceSync \/ Close \/ Kill \/ Restart \/ UNCHANGED vars
    BY <2>7 DEF StartTick, Load, Continue, InSetup, PopulateDone, RunNothing, SyncAfterSend,
         Push, ServiceSync, Close, Kill, Restart, BeginSync, vars
  <2>8. QED
    BY <2>1, <2>2, <2>3, <2>4, <2>5, <2>6, <2>7, Never_raises DEF Next, BeatStep
<1>3. Spec => [][Step]_vars
  BY <1>1, <1>2, TypeCorrect, HeapInv_next, Agree_next, Once_next, Dated_next, PTL
  DEF Spec
<1>4. QED
  BY <1>3, Zenon DEF OnlyFaultsEndBeat
=============================================================================
