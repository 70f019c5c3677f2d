------------------------ MODULE MCDatabaseScheduler ------------------------
(* Small instances of DatabaseScheduler for TLC: the tasks are a, which     *)
(* runs at every second instant, and b, at every third.                     *)
EXTENDS DatabaseScheduler

CONSTANTS a, b, Expiring, Starting

EveryDef == [t \in Tasks |-> IF t = a THEN 2 ELSE 3]
ExpiresAtDef == [t \in Tasks |-> IF t \in Expiring THEN 4 ELSE 0]
StartAtDef == [t \in Tasks |-> IF t \in Starting THEN 2 ELSE 0]
=============================================================================
