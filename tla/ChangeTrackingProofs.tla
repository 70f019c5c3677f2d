------------------------ MODULE ChangeTrackingProofs ------------------------
(***************************************************************************)
(* Proofs about ChangeTracking, for any number of writers, tables, clocks  *)
(* and bounds.                                                             *)
(***************************************************************************)
EXTENDS ChangeTracking, TLAPS


\* The initial values have their types.
LEMMA TypeOK_init == Init => TypeOK
BY TimeAssumption DEF Init, Tables, TypeOK, WriterSteps

\* One step of a writer, or its first, keeps the types.
LEMMA TypeOK_writer ==
  ASSUME TypeOK, NEW w \in Writers,
         WriterBegins(w) \/ WriterStep(w) \/ WriterDies(w)
  PROVE  TypeOK'
<1> USE TimeAssumption DEF Tables, TypeOK, WriterSteps, beatVars, historyVars,
        Begin, TakeStamp, Announce, CommitContent, Fault, StaleTables
<1>1. CASE BeginSave(w)
  BY <1>1 DEF BeginSave
<1>2. ASSUME NEW t \in Tables, BeginUpdate(w, t) PROVE TypeOK'
  BY <1>2 DEF BeginUpdate
<1>3. ASSUME NEW o \in {"save", "cascade", "delete"}, NEW t \in Tables,
             BeginTransaction(w, o, t)
      PROVE TypeOK'
  BY <1>3 DEF BeginTransaction
<1>4. CASE PreSavePost(w)
  BY <1>4 DEF PreSavePost
<1>5. CASE WriteRow(w)
  BY <1>5 DEF WriteRow
<1>6. CASE StampWrite(w)
  BY <1>6 DEF StampWrite
<1>7. CASE Post(w)
  BY <1>7 DEF Post
<1>8. CASE TakeLock(w)
  BY <1>8 DEF TakeLock
<1>9. CASE StampInTransaction(w)
  BY <1>9 DEF StampInTransaction
<1>10. CASE Commit(w)
  BY <1>10 DEF Commit
<1>11. CASE WriterDies(w)
  BY <1>11 DEF WriterDies
<1>12. QED
  BY <1>1, <1>2, <1>3, <1>4, <1>5, <1>6, <1>7, <1>8, <1>9, <1>10, <1>11
  DEF WriterBegins, WriterStep

\* One step of beat or of the clocks keeps the types.
LEMMA TypeOK_beat ==
  ASSUME TypeOK,
         Tick \/ LocalClockShifts \/ BeatStep \/ PollError \/ BeatDies
  PROVE  TypeOK'
<1> USE TimeAssumption DEF Tables, TypeOK, WriterSteps, writerVars, beatVars, historyVars,
        Decide, Fault, WallClock, StaleTables
<1>1. CASE Tick
  BY <1>1 DEF Tick
<1>2. CASE LocalClockShifts
  BY <1>2 DEF LocalClockShifts
<1>3. CASE InitialRead
  <2>1. WallClock \in Int /\ clock \in Nat
    OBVIOUS
  <2>2. currentTime' \in Int /\ lastFullSync' \in Int /\ lastPoll' \in Nat
    BY <1>3, <2>1 DEF InitialRead
  <2>3. initialRead' \in BOOLEAN /\ toLoad' \subseteq Tables
    BY <1>3 DEF InitialRead
  <2>4. QED
    BY <1>3, <2>2, <2>3 DEF InitialRead
<1>4. CASE Access
  BY <1>4 DEF Access
<1>5. CASE Poll
  BY <1>5 DEF Poll
<1>6. CASE PollError
  BY <1>6 DEF PollError
<1>7. ASSUME NEW t \in Tables, LoadTable(t) PROVE TypeOK'
  BY <1>7 DEF LoadTable
<1>8. CASE BeatDies
  BY <1>8 DEF BeatDies
<1>9. CASE Restart
  BY <1>9 DEF Restart
<1>10. QED
  BY <1>1, <1>2, <1>3, <1>4, <1>5, <1>6, <1>7, <1>8, <1>9 DEF BeatStep

\* A step that changes nothing keeps the types.
LEMMA TypeOK_stutter == TypeOK /\ UNCHANGED vars => TypeOK'
BY DEF TypeOK, vars, writerVars, beatVars, historyVars

\* The variables keep their types.
THEOREM TypeCorrect == Spec => []TypeOK
<1>1. TypeOK /\ [Next]_vars => TypeOK'
  BY TypeOK_writer, TypeOK_beat, TypeOK_stutter DEF Next
<1>2. QED
  BY <1>1, TypeOK_init, PTL DEF Spec

-----------------------------------------------------------------------------
(* How a change can be lost.                                               *)

\* The explanations NoOtherLoss offers for a table that is stale.
Explained(t) ==
  \/ lastTimestamp = 0 \/ lastUpdate > lastTimestamp
  \/ Pending(t)
  \/ t \in missed

\* Posting a notice leaves every stale table explained: beat will see the
\* new stamp, or the table is counted as missed.
LEMMA AnnounceExplains ==
  ASSUME TypeOK, NEW w \in Writers, NEW stale, Announce(w, stale),
         lastTimestamp' = lastTimestamp, NEW t \in stale
  PROVE  Explained(t)'
BY DEF TypeOK, Announce, Explained

\* A step that touches neither beat's copy nor its timestamp, nor the notice,
\* and finishes no announcement, keeps the explanations.
LEMMA QuietExplains ==
  ASSUME NEW t \in Tables, Explained(t), Pending(t) => Pending(t)',
         UNCHANGED <<lastTimestamp, lastUpdate>>, missed \subseteq missed'
  PROVE  Explained(t)'
BY DEF Explained

\* Steps of a writer.
LEMMA NoOtherLoss_writer ==
  ASSUME TypeOK, NoOtherLoss, NEW w \in Writers,
         WriterBegins(w) \/ WriterStep(w) \/ WriterDies(w)
  PROVE  NoOtherLoss'
<1> SUFFICES ASSUME NEW t \in Tables, Loaded(t)', Stale(t)' PROVE Explained(t)'
  BY DEF NoOtherLoss, Explained
<1>1. UNCHANGED <<bpc, initialRead, toLoad, lastTimestamp, seen>>
  BY DEF WriterBegins, WriterStep, WriterDies, BeginSave, BeginUpdate,
         BeginTransaction, PreSavePost, WriteRow, StampWrite, Post, TakeLock,
         StampInTransaction, Commit, beatVars
<1>2. Loaded(t)
  BY <1>1 DEF Loaded
<1>3. Stale(t) => Explained(t)
  BY <1>2 DEF NoOtherLoss, Explained
<1>4. ASSUME UNCHANGED <<content, lastUpdate>>, missed \subseteq missed',
             Pending(t) => Pending(t)'
      PROVE  Explained(t)'
  BY <1>1, <1>3, <1>4, QuietExplains DEF Stale
<1>5. CASE WriterBegins(w)
  <2>1. UNCHANGED <<content, lastUpdate, missed>> /\ wpc[w] = "idle"
    BY <1>5 DEF WriterBegins, Begin, BeginSave, BeginUpdate, BeginTransaction,
                historyVars
  <2>2. \A v \in Writers \ {w} : wpc'[v] = wpc[v] /\ table'[v] = table[v]
    BY <1>5 DEF WriterBegins, BeginSave, BeginUpdate, BeginTransaction, TypeOK
  <2>3. Pending(t) => Pending(t)'
    BY <2>1, <2>2 DEF Pending
  <2>4. QED
    BY <1>4, <2>1, <2>3
<1>6. CASE PreSavePost(w) \/ Post(w)
  <2>1. Announce(w, StaleTables) /\ UNCHANGED content
    BY <1>6 DEF PreSavePost, Post
  <2>2. t \in StaleTables
    BY <1>1, <2>1 DEF StaleTables, Stale
  <2>3. QED
    BY <1>1, <2>1, <2>2, AnnounceExplains
<1>7. CASE Commit(w)
  <2>1. Announce(w, StaleTables \cup {table[w]})
    BY <1>7 DEF Commit
  <2>2. t \in StaleTables \cup {table[w]}
    <3>1. t # table[w] => content'[t] = content[t]
      BY <1>7 DEF Commit, CommitContent, TypeOK
    <3>2. QED
      BY <1>1, <3>1 DEF StaleTables, Stale
  <2>3. QED
    BY <1>1, <2>1, <2>2, AnnounceExplains
<1>8. CASE WriteRow(w)
  <2>1. wpc' = [wpc EXCEPT ![w] = "written"] /\ wpc[w] = "row"
        /\ UNCHANGED <<table, lastUpdate, missed>>
    BY <1>8 DEF WriteRow
  <2>2. CASE t = table[w]
    BY <2>1, <2>2 DEF Explained, Pending, TypeOK
  <2>3. CASE t # table[w]
    <3>1. content'[t] = content[t]
      BY <1>8, <2>3 DEF WriteRow, CommitContent, TypeOK
    <3>2. Pending(t) => Pending(t)'
      BY <2>1 DEF Pending, TypeOK
    <3>3. QED
      BY <1>1, <1>3, <2>1, <3>1, <3>2, QuietExplains DEF Stale
  <2>4. QED
    BY <2>2, <2>3
<1>9. CASE StampWrite(w) \/ TakeLock(w) \/ StampInTransaction(w)
  <2>1. UNCHANGED <<content, lastUpdate, missed, table>>
    BY <1>9 DEF StampWrite, TakeLock, StampInTransaction, historyVars
  <2>2. Pending(t) => Pending(t)'
    BY <1>9, <2>1 DEF StampWrite, TakeLock, StampInTransaction, Pending, TypeOK
  <2>3. QED
    BY <1>4, <2>1, <2>2
<1>10. CASE WriterDies(w)
  <2>1. UNCHANGED <<content, lastUpdate, lastTimestamp, table>>
    BY <1>10 DEF WriterDies, beatVars
  <2>2. missed \subseteq missed'
    BY <1>10 DEF WriterDies
  <2>3. CASE table[w] = t /\ wpc[w] \in {"written", "announce"}
    BY <1>10, <2>3 DEF WriterDies, Explained
  <2>4. CASE ~(table[w] = t /\ wpc[w] \in {"written", "announce"})
    <3>1. Pending(t) => Pending(t)'
      BY <1>10, <2>1, <2>4 DEF WriterDies, Pending, TypeOK
    <3>2. QED
      BY <1>4, <2>1, <2>2, <3>1
  <2>5. QED
    BY <2>3, <2>4
<1>11. QED
  BY <1>5, <1>6, <1>7, <1>8, <1>9, <1>10 DEF WriterStep

\* Steps of beat and of the clocks.
LEMMA NoOtherLoss_beat ==
  ASSUME TypeOK, NoOtherLoss,
         Tick \/ LocalClockShifts \/ BeatStep \/ PollError \/ BeatDies
  PROVE  NoOtherLoss'
<1> SUFFICES ASSUME NEW t \in Tables, Loaded(t)', Stale(t)' PROVE Explained(t)'
  BY DEF NoOtherLoss, Explained
<1>1. UNCHANGED <<content, lastUpdate, wpc, table>>
  BY DEF Tick, LocalClockShifts, BeatStep, InitialRead, Access, Poll, Restart,
         LoadTable, PollError, BeatDies, writerVars
<1>2. Pending(t)' <=> Pending(t)
  BY <1>1 DEF Pending
<1>3. ASSUME Loaded(t), UNCHANGED <<lastTimestamp, seen>>, missed \subseteq missed'
      PROVE  Explained(t)'
  <2>1. Explained(t)
    BY <1>1, <1>3 DEF NoOtherLoss, Explained, Stale
  <2>2. QED
    BY <1>1, <1>2, <1>3, <2>1, QuietExplains
<1>4. CASE Tick \/ LocalClockShifts \/ Access
  <2>1. Loaded(t)
    BY <1>4 DEF Tick, LocalClockShifts, Access, Running, Loaded, beatVars
  <2>2. UNCHANGED <<lastTimestamp, seen, missed>>
    BY <1>4 DEF Tick, LocalClockShifts, Access, beatVars, historyVars
  <2>3. QED
    BY <1>3, <2>1, <2>2
<1>5. CASE InitialRead
  BY <1>5 DEF InitialRead, Loaded
<1>6. CASE BeatDies \/ Restart
  BY <1>6 DEF BeatDies, Restart, Loaded
<1>7. CASE PollError
  <2>1. Loaded(t)
    BY <1>7 DEF PollError, Decide, Loaded
  <2>2. UNCHANGED <<lastTimestamp, seen, missed>>
    BY <1>7 DEF PollError, historyVars
  <2>3. QED
    BY <1>3, <2>1, <2>2
<1>8. CASE Poll
  \* Nothing has changed since the last poll, or the tables would be reloaded.
  <2>1. Loaded(t) /\ Stale(t) /\ ~(lastTimestamp # 0 /\ lastUpdate > lastTimestamp)
    BY <1>1, <1>8 DEF Poll, Decide, Loaded, Stale
  <2>2. CASE lastTimestamp = 0
    BY <1>8, <2>1, <2>2 DEF Poll, StaleTables, Explained
  <2>3. CASE lastTimestamp # 0
    <3>1. Pending(t) \/ t \in missed
      BY <2>1, <2>3 DEF NoOtherLoss
    <3>2. missed' = missed
      BY <1>8, <2>3 DEF Poll
    <3>3. QED
      BY <1>2, <3>1, <3>2 DEF Explained
  <2>4. QED
    BY <2>2, <2>3
<1>9. ASSUME NEW s \in Tables, LoadTable(s) PROVE Explained(t)'
  <2>1. t # s
    BY <1>1, <1>9 DEF LoadTable, Stale, TypeOK
  <2>2. Loaded(t) /\ seen'[t] = seen[t]
    BY <1>9, <2>1 DEF LoadTable, Loaded, TypeOK
  <2>3. Explained(t)
    BY <1>1, <2>2 DEF NoOtherLoss, Explained, Stale
  <2>4. UNCHANGED lastTimestamp /\ missed' = missed \ {s}
    BY <1>9 DEF LoadTable
  <2>5. QED
    BY <1>1, <1>2, <2>1, <2>3, <2>4 DEF Explained
<1>10. QED
  BY <1>4, <1>5, <1>6, <1>7, <1>8, <1>9 DEF BeatStep

\* However writers, polls and reloads interleave, a change is lost to beat
\* only in the three ways NoOtherLoss lists.
THEOREM NoOtherLossHolds == Spec => []NoOtherLoss
<1>1. Init => NoOtherLoss
  BY DEF Init, NoOtherLoss, Loaded, Stale
<1>2. TypeOK /\ NoOtherLoss /\ [Next]_vars => NoOtherLoss'
  <2>1. TypeOK /\ NoOtherLoss /\ Next => NoOtherLoss'
    BY NoOtherLoss_writer, NoOtherLoss_beat DEF Next
  <2>2. NoOtherLoss /\ UNCHANGED vars => NoOtherLoss'
    BY DEF vars, writerVars, beatVars, historyVars, NoOtherLoss, Loaded,
           Stale, Pending
  <2>3. QED
    BY <2>1, <2>2
<1>3. QED
  BY <1>1, <1>2, TypeCorrect, PTL DEF Spec

-----------------------------------------------------------------------------
(* How long a lost change stays lost.                                      *)

\* The inductive strengthening of StalenessBound.  lastFullSync and
\* currentTime are read from the local clock, which is never ahead of the
\* true one and at most FallBack behind it, so a table goes stale no earlier
\* than lastFullSync says.
SyncInv ==
  /\ \A t \in Tables : Loaded(t) /\ Stale(t) => staleSince[t] >= lastFullSync
  /\ lastFullSync <= clock /\ currentTime <= clock
  /\ bpc \in {"idle", "poll"} => toLoad = {}
  /\ bpc = "poll" => lastPoll - currentTime <= FallBack
  /\ bpc = "load" => lastPoll - lastFullSync <= FallBack
  /\ Running => lastPoll - lastFullSync < SyncMax + FallBack

\* The invariant holds at first.
LEMMA SyncInv_init == Init => SyncInv
BY TimeAssumption DEF Init, SyncInv, Loaded, Stale, Running

\* A writer can only make a table stale, at the present instant.
LEMMA SyncInv_writer ==
  ASSUME TypeOK, SyncInv, NEW w \in Writers,
         WriterBegins(w) \/ WriterStep(w) \/ WriterDies(w)
  PROVE  SyncInv'
<1>1. UNCHANGED <<clock, bpc, initialRead, toLoad, currentTime, lastFullSync,
                  lastPoll, seen>>
  BY DEF WriterBegins, WriterStep, WriterDies, BeginSave, BeginUpdate,
         BeginTransaction, PreSavePost, WriteRow, StampWrite, Post, TakeLock,
         StampInTransaction, Commit, beatVars, historyVars
<1>2. ASSUME NEW t \in Tables, Loaded(t)', Stale(t)'
      PROVE  staleSince'[t] >= lastFullSync
  <2>1. Loaded(t)
    BY <1>1, <1>2 DEF Loaded
  <2>2. CASE WriteRow(w) \/ Commit(w)
    <3>1. CommitContent(table[w]) /\ table[w] \in Tables
      BY <2>2 DEF WriteRow, Commit, TypeOK
    <3>2. CASE t = table[w] /\ ~Stale(t)
      <4>1. staleSince'[t] = clock
        BY <3>1, <3>2 DEF CommitContent, TypeOK
      <4>2. QED
        BY <4>1 DEF SyncInv
    <3>3. CASE t # table[w] \/ Stale(t)
      <4>1. staleSince'[t] = staleSince[t]
        BY <3>1, <3>3 DEF CommitContent, TypeOK
      <4>2. t # table[w] => content'[t] = content[t]
        BY <3>1 DEF CommitContent, TypeOK
      <4>3. QED
        BY <1>1, <1>2, <2>1, <3>3, <4>1, <4>2 DEF SyncInv, Stale
    <3>4. QED
      BY <3>2, <3>3
  <2>3. CASE ~(WriteRow(w) \/ Commit(w))
    <3>1. UNCHANGED <<content, staleSince>>
      BY <2>3 DEF WriterBegins, WriterStep, WriterDies, BeginSave, BeginUpdate,
           BeginTransaction, PreSavePost, StampWrite, Post, TakeLock,
           StampInTransaction, historyVars
    <3>2. QED
      BY <1>1, <1>2, <2>1, <3>1 DEF SyncInv, Stale
  <2>4. QED
    BY <2>2, <2>3
<1>3. QED
  BY <1>1, <1>2 DEF SyncInv, Running

\* What Decide does, once the poll is over.
LEMMA SyncInv_decide ==
  ASSUME TypeOK, SyncInv, bpc = "poll", ~initialRead, NEW changed, Decide(changed),
         UNCHANGED <<clock, initialRead, currentTime, lastPoll, content, seen,
                     staleSince>>
  PROVE  SyncInv'
<1>1. CASE changed \/ currentTime - lastFullSync >= SyncMax
  BY <1>1, TimeAssumption DEF Decide, SyncInv, Loaded, Running, TypeOK
<1>2. CASE ~(changed \/ currentTime - lastFullSync >= SyncMax)
  <2>1. bpc' = "idle" /\ UNCHANGED <<lastFullSync, toLoad>>
    BY <1>2 DEF Decide
  <2>2. lastPoll - lastFullSync < SyncMax + FallBack
    BY <1>2, TimeAssumption DEF SyncInv, TypeOK
  <2>3. \A t \in Tables : Loaded(t)' /\ Stale(t)' => staleSince[t] >= lastFullSync
    BY <2>1 DEF SyncInv, Loaded, Stale
  <2>4. QED
    BY <2>1, <2>2, <2>3 DEF SyncInv, Running
<1>3. QED
  BY <1>1, <1>2

\* Steps of beat and of the clocks.
LEMMA SyncInv_beat ==
  ASSUME TypeOK, SyncInv, bpc = "poll" => ~initialRead,
         Tick \/ LocalClockShifts \/ BeatStep \/ PollError \/ BeatDies
  PROVE  SyncInv'
<1> USE TimeAssumption
<1>1. CASE Tick
  BY <1>1 DEF Tick, SyncInv, Loaded, Stale, Running, TypeOK, beatVars, historyVars
<1>2. CASE LocalClockShifts
  BY <1>2 DEF LocalClockShifts, SyncInv, Loaded, Stale, Running, beatVars,
              historyVars
<1>3. CASE InitialRead
  <2>1. WallClock <= clock /\ clock - WallClock <= FallBack
    BY DEF WallClock, TypeOK
  <2>2. QED
    BY <1>3, <2>1 DEF InitialRead, SyncInv, Loaded, Running, TypeOK
<1>4. CASE Access
  <2>1. WallClock <= clock /\ clock - WallClock <= FallBack
    BY DEF WallClock, TypeOK
  <2>2. QED
    BY <1>4, <2>1 DEF Access, SyncInv, Loaded, Stale, Running, TypeOK
<1>5. CASE Poll
  BY <1>5, SyncInv_decide DEF Poll
<1>6. CASE PollError
  BY <1>6, SyncInv_decide DEF PollError, historyVars
<1>7. ASSUME NEW s \in Tables, LoadTable(s) PROVE SyncInv'
  <2>1. ASSUME NEW t \in Tables, Loaded(t)', Stale(t)'
        PROVE  staleSince'[t] >= lastFullSync'
    <3>1. t # s
      BY <1>7, <2>1 DEF LoadTable, Stale, TypeOK
    <3>2. Loaded(t) /\ Stale(t)
      BY <1>7, <2>1, <3>1 DEF LoadTable, Loaded, Stale, TypeOK
    <3>3. QED
      BY <1>7, <3>2 DEF LoadTable, SyncInv
  <2>2. UNCHANGED <<clock, lastFullSync, currentTime, lastPoll>>
        /\ lastPoll - lastFullSync <= FallBack
    BY <1>7 DEF LoadTable, SyncInv
  <2>3. bpc' \in {"idle", "load"} /\ (bpc' = "idle" => toLoad' = {})
    BY <1>7 DEF LoadTable
  <2>4. lastPoll - lastFullSync < SyncMax + FallBack
    BY <2>2 DEF TypeOK
  <2>5. QED
    BY <2>1, <2>2, <2>3, <2>4 DEF SyncInv
<1>8. CASE BeatDies
  BY <1>8 DEF BeatDies, SyncInv, Loaded, Running, historyVars
<1>9. CASE Restart
  BY <1>9 DEF Restart, SyncInv, Loaded, Running, historyVars
<1>10. QED
  BY <1>1, <1>2, <1>3, <1>4, <1>5, <1>6, <1>7, <1>8, <1>9 DEF BeatStep

\* Only a beat that has loaded its tables polls.
LEMMA PollsAfterRead == Spec => [](bpc \in {"poll", "load"} => ~initialRead)
<1> DEFINE I == bpc \in {"poll", "load"} => ~initialRead
<1>1. Init => I
  BY DEF Init
<1>2. I /\ [Next]_vars => I'
  <2> SUFFICES ASSUME I, [Next]_vars PROVE I'
    OBVIOUS
  <2>1. ASSUME NEW w \in Writers, WriterBegins(w) \/ WriterStep(w) \/ WriterDies(w)
        PROVE  I'
    BY <2>1 DEF WriterBegins, WriterStep, WriterDies, BeginSave, BeginUpdate,
         BeginTransaction, PreSavePost, WriteRow, StampWrite, Post, TakeLock,
         StampInTransaction, Commit, beatVars
  <2>2. CASE Tick \/ LocalClockShifts \/ PollError \/ BeatDies \/ UNCHANGED vars
    BY <2>2 DEF Tick, LocalClockShifts, PollError, BeatDies, Decide, vars, beatVars
  <2>3. CASE BeatStep
    BY <2>3 DEF BeatStep, InitialRead, Access, Running, Poll, Decide, Restart,
                LoadTable
  <2>4. QED
    BY <2>1, <2>2, <2>3 DEF Next
<1>3. QED
  BY <1>1, <1>2, PTL DEF Spec

\* Losing a notice costs at most SyncMax, and the hour the local clock may
\* have gone back, for any number of writers, faults and lost notices.
THEOREM StalenessBounded == Spec => []StalenessBound
<1> DEFINE P == bpc \in {"poll", "load"} => ~initialRead
<1>1. TypeOK /\ P /\ SyncInv /\ [Next]_vars => SyncInv'
  <2>1. TypeOK /\ P /\ SyncInv /\ Next => SyncInv'
    BY SyncInv_writer, SyncInv_beat DEF Next
  <2>2. SyncInv /\ UNCHANGED vars => SyncInv'
    BY DEF vars, beatVars, historyVars, SyncInv, Loaded, Stale, Running
  <2>3. QED
    BY <2>1, <2>2
<1>2. TypeOK /\ SyncInv => StalenessBound
  <2> SUFFICES ASSUME TypeOK, SyncInv, NEW t \in Tables, Running, Stale(t)
               PROVE  lastPoll - staleSince[t] < SyncMax + FallBack
    BY DEF StalenessBound
  <2>1. staleSince[t] >= lastFullSync
    BY DEF SyncInv, Running, Loaded
  <2>2. lastPoll - lastFullSync < SyncMax + FallBack
    BY DEF SyncInv
  <2>3. QED
    BY <2>1, <2>2, TimeAssumption DEF TypeOK
<1>3. QED
  BY <1>1, <1>2, SyncInv_init, TypeCorrect, PollsAfterRead, PTL DEF Spec

-----------------------------------------------------------------------------
(* Stamps taken under the lock.                                            *)

\* With one clock for all hosts no stamp is in the future, and the last stamp
\* of a transactional save, taken under the lock, is not older than the row.
StampInv ==
  /\ lastUpdate <= clock
  /\ \A w \in Writers : stamp[w] <= clock
  /\ \A w \in Writers : wpc[w] \in {"txHeld", "txFinal"} => lock = w
  /\ \A w \in Writers : wpc[w] = "txFinal" => lastUpdate <= stamp[w]

\* A step of writer w.
LEMMA StampInv_writer ==
  ASSUME Drift = {0}, TypeOK, StampInv, NEW w \in Writers,
         WriterBegins(w) \/ WriterStep(w) \/ WriterDies(w)
  PROVE  StampInv'
<1> USE DEF TypeOK, StampInv, TakeStamp, Announce
<1> USE WritersAssumption
<1>1. CASE WriterBegins(w)
  BY <1>1 DEF WriterBegins, BeginSave, BeginUpdate, BeginTransaction
<1>2. CASE PreSavePost(w) \/ Post(w)
  <2>1. lastUpdate' = stamp[w] /\ lock = NoWriter /\ UNCHANGED <<clock, lock, stamp>>
    BY <1>2 DEF PreSavePost, Post
  <2>2. \A v \in Writers : wpc'[v] \notin {"txHeld", "txFinal"}
    BY <1>2, <2>1 DEF PreSavePost, Post
  <2>3. QED
    BY <2>1, <2>2
<1>3. CASE WriteRow(w)
  BY <1>3 DEF WriteRow
<1>4. CASE StampWrite(w)
  BY <1>4 DEF StampWrite
<1>5. CASE TakeLock(w)
  BY <1>5 DEF TakeLock
<1>6. CASE StampInTransaction(w)
  BY <1>6 DEF StampInTransaction
<1>7. CASE Commit(w)
  <2>1. lastUpdate' = stamp[w] /\ lock = w /\ UNCHANGED <<clock, stamp>>
    BY <1>7 DEF Commit
  <2>2. \A v \in Writers : wpc'[v] \notin {"txHeld", "txFinal"}
    BY <1>7, <2>1 DEF Commit
  <2>3. QED
    BY <2>1, <2>2
<1>8. CASE WriterDies(w)
  BY <1>8 DEF WriterDies
<1>9. QED
  BY <1>1, <1>2, <1>3, <1>4, <1>5, <1>6, <1>7, <1>8 DEF WriterStep

\* When all hosts share a clock, nobody moves the notice row back while a
\* transactional save holds it.
THEOREM AtomicSaveNeverRegressesHolds ==
  ASSUME Drift = {0} PROVE Spec => AtomicSaveNeverRegresses
<1>1. Init => StampInv
  BY WritersAssumption DEF Init, StampInv
<1>2. TypeOK /\ StampInv /\ [Next]_vars => StampInv'
  <2>1. TypeOK /\ StampInv /\ Tick => StampInv'
    BY DEF Tick, StampInv, TypeOK, writerVars
  <2>2. StampInv /\ (LocalClockShifts \/ BeatStep \/ PollError \/ BeatDies
                     \/ UNCHANGED vars) => StampInv'
    BY DEF LocalClockShifts, BeatStep, PollError, BeatDies, InitialRead, Access,
           Poll, LoadTable, Restart, vars, writerVars, StampInv
  <2>3. QED
    BY <2>1, <2>2, StampInv_writer DEF Next
<1>3. TypeOK /\ StampInv /\ [Next]_vars =>
        [\A w \in Writers :
           wpc[w] = "txFinal" /\ lastUpdate' # lastUpdate => lastUpdate' > lastUpdate]_vars
  <2> SUFFICES ASSUME TypeOK, StampInv, Next, NEW w \in Writers,
                      wpc[w] = "txFinal", lastUpdate' # lastUpdate
               PROVE  lastUpdate' > lastUpdate
    OBVIOUS
  \* Only the holder of the lock can post.
  <2>1. lock = w /\ lock # NoWriter
    BY WritersAssumption DEF StampInv
  <2>2. ASSUME NEW v \in Writers, Commit(v) PROVE lastUpdate' = stamp[w]
    <3>1. v = w
      BY <2>1, <2>2 DEF Commit, StampInv
    <3>2. QED
      BY <2>2, <3>1 DEF Commit, Announce
  <2>3. \E v \in Writers : Commit(v)
    BY <2>1 DEF Next, Tick, LocalClockShifts, BeatStep, PollError, BeatDies,
         InitialRead, Access, Poll, LoadTable, Restart, WriterBegins, BeginSave,
         BeginUpdate, BeginTransaction, WriterStep, PreSavePost, WriteRow,
         StampWrite, Post, TakeLock, StampInTransaction, WriterDies
  <2>4. QED
    BY <2>2, <2>3 DEF StampInv, TypeOK
<1>4. QED
  BY <1>1, <1>2, <1>3, TypeCorrect, PTL DEF Spec, AtomicSaveNeverRegresses

-----------------------------------------------------------------------------
(* ChangeTracking implements Mirror.                                       *)

\* NoOtherLoss is what Mirror asks of every step.
LEMMA Accounts == NoOtherLoss <=> Copy!Differs \subseteq Owed \cup missed
BY DEF NoOtherLoss, Copy!Differs, Owed, Held, Stale

\* A writer writes a table, or moves notices.
LEMMA WriterMirrors ==
  ASSUME TypeOK, NoOtherLoss', NEW w \in Writers,
         WriterBegins(w) \/ WriterStep(w) \/ WriterDies(w)
  PROVE  Copy!Next
<1>1. UNCHANGED <<bpc, initialRead, toLoad, seen>>
  BY DEF WriterBegins, WriterStep, WriterDies, BeginSave, BeginUpdate,
         BeginTransaction, PreSavePost, WriteRow, StampWrite, Post, TakeLock,
         StampInTransaction, Commit, beatVars
<1>2. UNCHANGED Held
  BY <1>1 DEF Held, Loaded
<1>3. Copy!Accounted
  BY Accounts, NoOtherLoss' DEF NoOtherLoss, Copy!Accounted, Copy!Differs, Owed, Held, Stale
<1>4. missed \subseteq missed'
  BY DEF WriterBegins, WriterStep, WriterDies, BeginSave, BeginUpdate,
         BeginTransaction, PreSavePost, WriteRow, StampWrite, Post, TakeLock,
         StampInTransaction, Commit, Announce, historyVars
<1>5. CASE WriteRow(w) \/ Commit(w)
  <2>1. table[w] \in Tables /\ content' = [content EXCEPT ![table[w]] = @ + 1]
    BY <1>5 DEF WriteRow, Commit, CommitContent, TypeOK
  <2>2. Copy!Write(table[w])
    BY <1>1, <1>2, <1>3, <1>4, <2>1 DEF Copy!Write
  <2>3. QED
    BY <2>1, <2>2 DEF Copy!Next
<1>6. CASE ~(WriteRow(w) \/ Commit(w))
  <2>1. UNCHANGED content
    BY <1>6 DEF WriterBegins, WriterStep, WriterDies, BeginSave, BeginUpdate,
         BeginTransaction, PreSavePost, StampWrite, Post, TakeLock, StampInTransaction
  <2>2. Copy!Notify
    BY <1>1, <1>2, <1>3, <1>4, <2>1 DEF Copy!Notify
  <2>3. QED
    BY <2>2 DEF Copy!Next
<1>7. QED
  BY <1>5, <1>6

\* Beat looks at a notice, drops its copies, or reads a table.
LEMMA BeatMirrors ==
  ASSUME TypeOK, NoOtherLoss', bpc \in {"poll", "load"} => ~initialRead,
         Tick \/ LocalClockShifts \/ BeatStep \/ PollError \/ BeatDies
  PROVE  Copy!Next
<1>1. UNCHANGED content
  BY DEF Tick, LocalClockShifts, BeatStep, InitialRead, Access, Poll, Restart,
         LoadTable, PollError, BeatDies
<1>2. Copy!Accounted
  BY NoOtherLoss' DEF NoOtherLoss, Copy!Accounted, Copy!Differs, Owed, Held, Stale
<1>3. ASSUME UNCHANGED <<seen, Held>>, missed \subseteq missed' PROVE Copy!Next
  BY <1>1, <1>2, <1>3 DEF Copy!Notify, Copy!Next
<1>4. ASSUME UNCHANGED seen, Held' = {}, missed \subseteq missed' PROVE Copy!Next
  BY <1>1, <1>4 DEF Copy!Drop, Copy!Next
<1>5. CASE Tick \/ LocalClockShifts
  BY <1>3, <1>5 DEF Tick, LocalClockShifts, beatVars, historyVars, Held, Loaded
<1>6. CASE Access
  BY <1>3, <1>6 DEF Access, Running, Held, Loaded
<1>7. CASE InitialRead
  BY <1>4, <1>7 DEF InitialRead, Held, Loaded
<1>8. ASSUME bpc = "poll", UNCHANGED <<seen, initialRead>>, missed \subseteq missed',
             NEW changed, Decide(changed)
      PROVE  Copy!Next
  <2>1. CASE changed \/ currentTime - lastFullSync >= SyncMax
    <3>1. Held' = {}
      BY <1>8, <2>1 DEF Decide, Held, Loaded
    <3>2. QED
      BY <1>4, <1>8, <3>1
  <2>2. CASE ~(changed \/ currentTime - lastFullSync >= SyncMax)
    <3>1. UNCHANGED Held
      BY <1>8, <2>2 DEF Decide, Held, Loaded
    <3>2. QED
      BY <1>3, <1>8, <3>1
  <2>3. QED
    BY <2>1, <2>2
<1>9. CASE Poll
  BY <1>8, <1>9 DEF Poll
<1>10. CASE PollError
  BY <1>8, <1>10 DEF PollError, historyVars
<1>11. ASSUME NEW t \in Tables, LoadTable(t) PROVE Copy!Next
  <2>1. t \notin Held
    BY <1>11 DEF LoadTable, Held, Loaded
  <2>2. Held' = Held \cup {t}
    BY <1>11 DEF LoadTable, Held, Loaded
  <2>3. Copy!Read(t)
    BY <1>1, <1>2, <1>11, <2>1, <2>2 DEF LoadTable, Copy!Read
  <2>4. QED
    BY <2>3 DEF Copy!Next
<1>12. CASE BeatDies
  BY <1>4, <1>12 DEF BeatDies, historyVars, Held, Loaded
<1>13. CASE Restart
  BY <1>4, <1>13 DEF Restart, historyVars, Held, Loaded
<1>14. QED
  BY <1>5, <1>6, <1>7, <1>9, <1>10, <1>11, <1>12, <1>13 DEF BeatStep

\* However notices are stamped, posted, polled and lost, beat's copy of the
\* tables is one that Mirror allows, for any writers, tables, clocks and faults.
THEOREM ImplementsMirror == Spec => MirrorsTables
<1> DEFINE P == bpc \in {"poll", "load"} => ~initialRead
<1>1. Init => Copy!Init
  BY DEF Init, Copy!Init, Held, Owed, Loaded
<1>2. TypeOK /\ P /\ NoOtherLoss' /\ [Next]_vars => [Copy!Next]_(Copy!vars)
  <2>1. TypeOK /\ P /\ NoOtherLoss' /\ Next => Copy!Next
    BY WriterMirrors, BeatMirrors DEF Next
  <2>2. UNCHANGED vars => UNCHANGED Copy!vars
    BY DEF vars, writerVars, beatVars, historyVars, Copy!vars, Held, Owed, Loaded, Pending
  <2>3. QED
    BY <2>1, <2>2
<1>3. QED
  BY <1>1, <1>2, TypeCorrect, PollsAfterRead, NoOtherLossHolds, PTL
  DEF Spec, MirrorsTables, Copy!Spec
=============================================================================
