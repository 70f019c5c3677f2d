---------------------------- MODULE MCBeatSetup ----------------------------
(* Small configurations for TLC.                                           *)
EXTENDS BeatSetup, TLC

CONSTANTS a, b

Plain(kind, value, expire_seconds) ==
  [kind |-> kind, value |-> value, enabled |-> "unset", one_off |-> "unset",
   expires |-> "unset", expire_seconds |-> expire_seconds, default |-> FALSE]

\* A solar schedule, beside an entry that fails: a clocked task that is not
\* one-off.
WithSolar == a :> Plain("solar", 1, TRUE) @@ b :> Plain("clocked", 1, FALSE)

OnlySolar == {WithSolar}

\* The clean-up that is installed by default, and an empty beat_schedule.
WithCleanup == a :> [Plain("crontab", 1, TRUE) EXCEPT !.default = TRUE]

SolarOrCleanup == {WithSolar, WithCleanup}
=============================================================================
