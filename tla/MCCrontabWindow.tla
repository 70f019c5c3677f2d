--------------------------- MODULE MCCrontabWindow ---------------------------
(* Zones of the real world, with and without daylight saving time, and      *)
(* crontabs at the two ends of every hour, for TLC.                         *)
EXTENDS CrontabWindow

Zone(jan, today) == [jan |-> jan, today |-> today]
Utc        == Zone(0, 0)
Kolkata    == Zone(66, 66)
StJohns    == Zone(-42, -30)     \* in July, as the next ones
NewYork    == Zone(-60, -48)
Sydney     == Zone(132, 120)
Adelaide   == Zone(126, 114)
Chatham    == Zone(165, 153)

NearZones == {Utc, Kolkata, StJohns, NewYork, Sydney, Adelaide, Chatham}

At(h, m) == [hours |-> {h}, minute |-> m, plain |-> TRUE]
CrontabsDef == {At(h, m) : h \in 0..23, m \in {0, 11}}
               \cup {[hours |-> {8, 20}, minute |-> 5, plain |-> FALSE]}
=============================================================================
