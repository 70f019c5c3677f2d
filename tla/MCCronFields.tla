---------------------------- MODULE MCCronFields ----------------------------
(* The numbers at and beyond the ends of every slice, for TLC.             *)
EXTENDS CronFields

BoundaryNumbers == {0, 1, 2, 5, 6, 7, 8, 11, 12, 13, 23, 24, 31, 32, 59, 60}
=============================================================================
