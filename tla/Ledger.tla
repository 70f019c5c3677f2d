------------------------------- MODULE Ledger -------------------------------
(***************************************************************************)
(* What beat promises of the runs of its tasks.  It sends a task no sooner *)
(* than an interval after the last time, and counts every time; the table  *)
(* learns of a run later, but before beat leaves; and a count that beat    *)
(* and the table do not share is one that beat knows it has to save.       *)
(*                                                                         *)
(* How the count gets to the table, and what becomes of it when the        *)
(* schedule is read again in between, is for DatabaseScheduler.            *)
(***************************************************************************)
EXTENDS Integers

CONSTANTS Tasks,
          Every,    \* Every[t]: the interval of t
          OneOff    \* tasks that are to run once

VARIABLES
  time,
  beat,      \* "up" or "down"
  live,      \* the tasks that beat runs, and whose row is the one it has read
  sent,      \* sent[t]: when t was last sent, 0 if not since a client wrote it
  counted,   \* counted[t]: the runs of t that beat knows of
  stored,    \* stored[t]: the runs of t that the table knows of
  unsaved    \* the tasks whose runs beat has to save

vars == <<time, beat, live, sent, counted, stored, unsaved>>

Init ==
  /\ time = 1
  /\ beat = "up" /\ live = {} /\ unsaved = {}
  /\ sent = [t \in Tasks |-> 0]
  /\ counted \in [Tasks -> Nat] /\ stored \in [Tasks -> Nat]

\* No run is lost between beat and the table.
Shared(t) == stored[t] = counted[t]
Accounted == \A t \in live : Shared(t) \/ t \in unsaved

Pass ==
  /\ time' = time + 1
  /\ UNCHANGED <<beat, live, sent, counted, stored, unsaved>>

\* A client writes rows.  The row of a task that it deletes, or makes anew, is
\* no longer the one that beat has read.
Write ==
  /\ live' \subseteq live
  /\ \A t \in live' : stored'[t] = stored[t]
  /\ \A t \in Tasks : sent'[t] \in {0, sent[t]}
  /\ UNCHANGED <<time, beat, counted, unsaved>>

\* A task is due, and beat sends it, or finds that it cannot.
Run(t) ==
  /\ beat = "up"
  /\ sent[t] # 0 => time - sent[t] >= Every[t]
  /\ t \in OneOff => counted[t] = 0
  /\ counted' = [counted EXCEPT ![t] = @ + 1]
  /\ unsaved' = unsaved \cup {t}
  /\ sent' \in {sent, [sent EXCEPT ![t] = time]}
  /\ UNCHANGED <<time, beat, live, stored>>

\* A row that is gone is inserted again.
Save(t) ==
  /\ beat = "up"
  /\ stored' = [stored EXCEPT ![t] = counted[t]]
  /\ live \subseteq live' /\ live' \subseteq live \cup {t}
  /\ UNCHANGED <<time, beat, sent, counted, unsaved>>

\* What has been saved need not be saved again.
Settle ==
  /\ beat = "up"
  /\ unsaved' \subseteq unsaved
  /\ Accounted'
  /\ UNCHANGED <<time, beat, live, sent, counted, stored>>

\* The table is read; what is unsaved is kept.
Read ==
  /\ beat = "up"
  /\ \A t \in live' \ unsaved : counted'[t] = stored[t]
  /\ \A t \in live' \cap live \cap unsaved : counted'[t] = counted[t]
  /\ UNCHANGED <<time, beat, sent, stored, unsaved>>

\* A task has expired or, being one-off, has run.
End(t) ==
  /\ beat = "up"
  /\ live' = live \ {t}
  /\ \A u \in Tasks \ {t} : counted'[u] = counted[u] /\ stored'[u] = stored[u]
  /\ UNCHANGED <<time, beat, sent, unsaved>>

\* Beat leaves no run unsaved.
Leave ==
  /\ beat = "up" /\ beat' = "down"
  /\ \A t \in live : Shared(t)
  /\ unsaved' \subseteq unsaved
  /\ UNCHANGED <<time, live, sent, counted, stored>>

Start ==
  /\ beat = "down" /\ beat' = "up"
  /\ live' = {} /\ unsaved' = {}
  /\ UNCHANGED <<time, sent, stored>>

Next ==
  \/ Pass \/ Write \/ Settle \/ Read \/ Leave \/ Start
  \/ \E t \in Tasks : Run(t) \/ Save(t) \/ End(t)

Spec == Init /\ [][Next]_vars
=============================================================================
