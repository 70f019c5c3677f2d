----------------------------- MODULE MCDueTimes -----------------------------
(***************************************************************************)
(* A day of four hours: zones east and west of UTC whose clocks are put    *)
(* back or forward by an hour, intervals, crontabs and clocked times that  *)
(* fall before, in and after the bounds.                                   *)
(***************************************************************************)
EXTENDS DueTimes

Zone(before, after) == [before |-> before, after |-> after]

EastAndWest == {Zone(0, 0), Zone(3, 2), Zone(2, 3), Zone(-2, -3)}
Utc == {Zone(0, 0)}

Crontabs ==
  [kind : {"crontab"}, hours : {{1}, {0, 3}, 0..3}, offset : {0, -1}]
UtcCrontabs == {c \in Crontabs : c.offset = 0}

AllKinds ==
  [kind : {"interval"}, every : {1, 3}] \cup Crontabs
    \cup [kind : {"clocked"}, time : {-2, 5, 9}]

StartOrNot == {NoStart, 4, 6}
=============================================================================
