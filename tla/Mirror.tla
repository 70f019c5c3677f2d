------------------------------- MODULE Mirror -------------------------------
(***************************************************************************)
(* What the notices of django-celery-beat promise: beat's copy of the      *)
(* tables.  A table is read whole, and only while beat holds no copy of    *)
(* it; a copy that differs from its table is owed a notice, or counted as  *)
(* lost until the table is read again.                                     *)
(*                                                                         *)
(* How a notice travels, and how one is lost, are for ChangeTracking.      *)
(***************************************************************************)
EXTENDS Integers

CONSTANT Tables

VARIABLES
  content,   \* content[t]: version of table t
  copy,      \* copy[t]: the version that was read last
  held,      \* the tables that beat holds a copy of
  owed,      \* a notice is on its way
  lost       \* a change was made that no notice tells of

vars == <<content, copy, held, owed, lost>>

Differs == {t \in held : content[t] # copy[t]}

Init ==
  /\ content = [t \in Tables |-> 0]
  /\ copy = [t \in Tables |-> 0]
  /\ held = {} /\ lost = {}
  /\ owed \subseteq Tables

\* No difference goes unaccounted for.
Accounted == Differs' \subseteq owed' \cup lost'

\* A change is committed.
Write(t) ==
  /\ content' = [content EXCEPT ![t] = @ + 1]
  /\ UNCHANGED <<copy, held>>
  /\ lost \subseteq lost'
  /\ Accounted

\* A notice is written, replaced by another, looked at, or lost.
Notify ==
  /\ UNCHANGED <<content, copy, held>>
  /\ lost \subseteq lost'
  /\ Accounted

\* Beat drops its copies: to reload, or because it dies.
Drop ==
  /\ held' = {}
  /\ UNCHANGED <<content, copy>>
  /\ lost \subseteq lost'

Read(t) ==
  /\ t \notin held
  /\ copy' = [copy EXCEPT ![t] = content[t]]
  /\ held' = held \cup {t}
  /\ lost' = lost \ {t}
  /\ UNCHANGED content
  /\ Accounted

Next == Notify \/ Drop \/ \E t \in Tables : Write(t) \/ Read(t)

Spec == Init /\ [][Next]_vars
=============================================================================
