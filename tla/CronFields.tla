----------------------------- MODULE CronFields -----------------------------
(***************************************************************************)
(* A field of a CrontabSchedule on its way from a form, or from a schedule *)
(* of the configuration, through the table to beat: what the validators    *)
(* accept, and what the schedule made of it means.                         *)
(*                                                                         *)
(* A field is a list of parts, each read on its own, so that one part is   *)
(* enough: a star, a value or a range, with or without a step.  Names of   *)
(* months and days are left out.                                           *)
(***************************************************************************)
EXTENDS Integers

CONSTANTS
  Numbers     \* the numbers a part is written with

ASSUME NumbersAssumption == Numbers \subseteq Nat

VARIABLES
  field, part,   \* what is typed, and in which field
  stage          \* how far it has come

vars == <<field, part, stage>>

NoStep == -1
Steps  == Numbers \cup {NoStep}

Star(step)           == [form |-> "star", from |-> 0, to |-> 0, step |-> step]
Value(v, step)       == [form |-> "value", from |-> v, to |-> v, step |-> step]
Span(from, to, step) == [form |-> "range", from |-> from, to |-> to, step |-> step]

Parts == {Star(n) : n \in Steps} \cup {Value(v, n) : v \in Numbers, n \in Steps}
         \cup {Span(v, w, n) : v, w \in Numbers, n \in Steps}

\* The slices of the validators, in the order of a crontab line.
Slice == [minute        |-> [min |-> 0, max |-> 59],
          hour          |-> [min |-> 0, max |-> 23],
          day_of_month  |-> [min |-> 1, max |-> 31],
          month_of_year |-> [min |-> 1, max |-> 12],
          day_of_week   |-> [min |-> 0, max |-> 6]]
Fields == DOMAIN Slice

InSlice(s, v) == s.min <= v /\ v <= s.max
Stepped(from, to, step) == {v \in from .. to : (v - from) % step = 0}

-----------------------------------------------------------------------------
(* _CronRange.parse().  CronSlice.parse_value(), of python-crontab, raises *)
(* an exception of its own for a seven in the days of the week.            *)

IsSunday(s, v) == s.max = 6 /\ v = 7
CanParse(s, v) == InSlice(s, v) \/ IsSunday(s, v)
FromSunday(s, v) == IF IsSunday(s, v) THEN 0 ELSE v

\* A step of seven days turns the whole part into "0-0".
SundayStep(s, p) == p.step # NoStep /\ IsSunday(s, p.step)
Step(s, p) == IF p.step = NoStep \/ SundayStep(s, p) THEN 1 ELSE p.step

\* Mutant: a step of zero passes.
AcceptsStepZero(s, p) ==
  p.step = NoStep \/ (CanParse(s, p.step) /\ Step(s, p) <= s.max)

AcceptsStep(s, p) ==
  p.step = NoStep \/ (CanParse(s, p.step) /\ 1 <= Step(s, p) /\ Step(s, p) <= s.max)

\* The ends as parsed.  A range that ends on a Sunday written as seven is
\* moved to start there, or leaves the Sunday dangling.
Ends(s, p) ==
  LET Between(from, to, dangling) == [from |-> from, to |-> to, dangling |-> dangling]
      from == FromSunday(s, p.from)
      form == IF SundayStep(s, p) THEN "step" ELSE p.form
  IN CASE form = "step"  -> Between(0, 0, {})
       [] form = "star"  -> Between(s.min, s.max, {})
       [] form = "value" -> Between(from, from, {})
       [] form = "range" ->
            IF ~IsSunday(s, p.to) THEN Between(from, p.to, {})
            ELSE IF from = 1 THEN Between(0, 6, {}) ELSE Between(from, 6, {0})

\* Mutant: the ends of a range may stand in any order.
AcceptsAnyOrder(s, p) ==
  /\ AcceptsStep(s, p)
  /\ \/ SundayStep(s, p) \/ p.form = "star"
     \/ p.form = "value" /\ p.step = NoStep /\ CanParse(s, p.from)
     \/ p.form = "range" /\ CanParse(s, p.from) /\ CanParse(s, p.to)

\* "5/2" is neither a range nor a star, and a range may not wrap around.
Accepts(s, p) ==
  /\ AcceptsStep(s, p)
  /\ \/ SundayStep(s, p) \/ p.form = "star"
     \/ p.form = "value" /\ p.step = NoStep /\ CanParse(s, p.from)
     \/ /\ p.form = "range" /\ CanParse(s, p.from) /\ CanParse(s, p.to)
        /\ Ends(s, p).from <= Ends(s, p).to

\* The values of _CronSlice, for a part that is accepted.
Denotes(s, p) ==
  Stepped(Ends(s, p).from, Ends(s, p).to, Step(s, p)) \cup Ends(s, p).dangling

-----------------------------------------------------------------------------
(* crontab_parser of celery, which the schedule is made with: it wraps a   *)
(* range around, takes any positive step, and knows no day 7.              *)

CeleryParses(s, p) ==
  /\ p.form = "value" => p.step = NoStep /\ InSlice(s, p.from)
  /\ p.form = "range" => InSlice(s, p.from) /\ InSlice(s, p.to)
  /\ p.step = NoStep \/ p.step >= 1

CeleryExpands(s, p) ==
  LET size == s.max - s.min + 1
      from == IF p.form = "star" THEN s.min ELSE p.from
      to   == IF p.form = "star" THEN s.max ELSE p.to
      last == IF to < from THEN to + size ELSE to
  IN {s.min + ((v - s.min) % size) :
        v \in Stepped(from, last, IF p.step = NoStep THEN 1 ELSE p.step)}

-----------------------------------------------------------------------------
Init ==
  /\ field \in Fields /\ part \in Parts
  /\ stage = "typed"

\* full_clean() of a form, for a new row or for one that is in the table.
SubmitForm ==
  /\ stage \in {"typed", "saved"}
  /\ stage' = IF Accepts(Slice[field], part) THEN "saved" ELSE "rejected"
  /\ UNCHANGED <<field, part>>

\* Mutant: a range that wraps around is saved as celery counts it.
InstallUnwrapped ==
  /\ stage = "typed"
  /\ CeleryParses(Slice[field], part)
  /\ stage' = "saved"
  /\ part' = IF part.to < part.from THEN [part EXCEPT !.to = @ + 60] ELSE part
  /\ UNCHANGED field

\* from_schedule(), of a crontab that celery has made: nothing is validated.
Install ==
  /\ stage = "typed"
  /\ CeleryParses(Slice[field], part)
  /\ stage' = "saved"
  /\ UNCHANGED <<field, part>>

\* CrontabSchedule.schedule as ModelEntry is made: all_as_schedule() leaves
\* out an entry that raises ValueError.
Load ==
  /\ stage = "saved"
  /\ stage' = IF CeleryParses(Slice[field], part) THEN "loaded" ELSE "skipped"
  /\ UNCHANGED <<field, part>>

Next == SubmitForm \/ Install \/ Load

Spec == Init /\ [][Next]_vars

-----------------------------------------------------------------------------
Sevens == field = "day_of_week" /\ 7 \in {part.from, part.to, part.step}

\* The types of the variables.
TypeOK ==
  /\ field \in Fields /\ part \in Parts
  /\ stage \in {"typed", "rejected", "saved", "loaded", "skipped"}

\* Beat makes an entry of every field that a form has let through, unless it
\* names Sunday by a seven.
AcceptedIsLoaded == stage = "skipped" => Sevens

\* A field that was validated stands for the same times in celery's parser,
\* which the task runs by, as in python-crontab's, which validated it.
LoadedAsValidated ==
  stage = "loaded" /\ Accepts(Slice[field], part) /\ ~Sevens =>
    CeleryExpands(Slice[field], part) = Denotes(Slice[field], part)
=============================================================================
