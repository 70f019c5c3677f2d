--------------------------- MODULE CronFieldsProofs ---------------------------
(***************************************************************************)
(* Proofs about CronFields, for parts written with any numbers.            *)
(***************************************************************************)
EXTENDS CronFields, TLAPS

\* The variables keep their types.
THEOREM TypeCorrect == Spec => []TypeOK
<1>1. Init => TypeOK
  BY DEF Init, TypeOK
<1>2. TypeOK /\ [Next]_vars => TypeOK'
  <2> SUFFICES ASSUME TypeOK, [Next]_vars PROVE TypeOK'
    OBVIOUS
  <2>1. CASE SubmitForm
    BY <2>1 DEF SubmitForm, TypeOK
  <2>2. CASE Install
    BY <2>2 DEF Install, TypeOK
  <2>3. CASE Load
    BY <2>3 DEF Load, TypeOK
  <2>4. CASE UNCHANGED vars
    BY <2>4 DEF vars, TypeOK
  <2>5. QED
    BY <2>1, <2>2, <2>3, <2>4 DEF Next
<1>3. QED
  BY <1>1, <1>2, PTL DEF Spec

\* The bounds of a slice are numbers, and only the days of the week end at 6.
LEMMA SliceBounds ==
  ASSUME NEW f \in Fields
  PROVE  /\ Slice[f].min \in {0, 1} /\ Slice[f].max \in {6, 12, 23, 31, 59}
         /\ Slice[f].max = 6 <=> f = "day_of_week"
         /\ Slice[f].max = 6 => Slice[f].min = 0
BY DEF Fields, Slice

\* A part is made of numbers, and a value stands for itself.
LEMMA PartFields ==
  ASSUME NEW p \in Parts
  PROVE  /\ p.form \in {"star", "value", "range"}
         /\ p.from \in Nat /\ p.to \in Nat
         /\ p.step = NoStep \/ p.step \in Nat
         /\ p.form = "value" => p.to = p.from
BY NumbersAssumption DEF Parts, Star, Value, Span, Steps, NoStep

\* What a form accepts without a seven in the days of the week, celery reads.
LEMMA AcceptedParses ==
  ASSUME NEW f \in Fields, NEW p \in Parts, Accepts(Slice[f], p),
         ~(f = "day_of_week" /\ 7 \in {p.from, p.to, p.step})
  PROVE  CeleryParses(Slice[f], p)
<1>1. p.form \in {"star", "value", "range"} /\ p.from \in Nat /\ p.to \in Nat
      /\ (p.step = NoStep \/ p.step \in Nat)
  BY PartFields
<1>2. ~SundayStep(Slice[f], p)
  BY SliceBounds DEF SundayStep, IsSunday
<1>3. p.step = NoStep \/ p.step >= 1
  BY <1>1, <1>2 DEF Accepts, AcceptsStep, Step
<1>4. ~IsSunday(Slice[f], p.from) /\ ~IsSunday(Slice[f], p.to)
  BY SliceBounds DEF IsSunday
<1>5. p.form = "value" => p.step = NoStep /\ InSlice(Slice[f], p.from)
  BY <1>2, <1>4 DEF Accepts, CanParse
<1>6. p.form = "range" => InSlice(Slice[f], p.from) /\ InSlice(Slice[f], p.to)
  BY <1>2, <1>4 DEF Accepts, CanParse
<1>7. QED
  BY <1>3, <1>5, <1>6 DEF CeleryParses

\* A saved field was accepted, or came from a schedule celery had made.
SavedParses == stage = "saved" => CeleryParses(Slice[field], part) \/ Sevens

\* What a form has let through is loaded, unless it names Sunday by a seven.
THEOREM AcceptedIsLoadedHolds == Spec => []AcceptedIsLoaded
<1> DEFINE I == SavedParses /\ AcceptedIsLoaded
<1>1. Init => I
  BY DEF Init, SavedParses, AcceptedIsLoaded
<1>2. TypeOK /\ I /\ [Next]_vars => I'
  <2> SUFFICES ASSUME TypeOK, I, [Next]_vars PROVE I'
    OBVIOUS
  <2>1. CASE SubmitForm
    <3>1. UNCHANGED <<field, part>> /\ stage' \in {"saved", "rejected"}
          /\ (stage' = "saved" => Accepts(Slice[field], part))
      BY <2>1 DEF SubmitForm
    <3>2. field \in Fields /\ part \in Parts
      BY DEF TypeOK
    <3>3. stage' = "saved" => CeleryParses(Slice[field], part) \/ Sevens
      BY <3>1, <3>2, AcceptedParses DEF Sevens
    <3>4. QED
      BY <3>1, <3>3 DEF SavedParses, AcceptedIsLoaded, Sevens
  <2>2. CASE Install
    BY <2>2 DEF Install, SavedParses, AcceptedIsLoaded, Sevens
  <2>3. CASE Load
    BY <2>3 DEF Load, SavedParses, AcceptedIsLoaded, Sevens
  <2>4. CASE UNCHANGED vars
    BY <2>4 DEF vars, SavedParses, AcceptedIsLoaded, Sevens
  <2>5. QED
    BY <2>1, <2>2, <2>3, <2>4 DEF Next
<1>3. QED
  BY <1>1, <1>2, TypeCorrect, PTL DEF Spec

\* Within a slice, counting from its start and wrapping round changes nothing.
LEMMA NoWrap ==
  ASSUME NEW min \in {0, 1}, NEW size \in {7, 12, 24, 31, 60},
         NEW v \in min..(min + size - 1)
  PROVE  min + ((v - min) % size) = v
<1>1. v - min \in 0..(size - 1)
  OBVIOUS
<1>2. (v - min) % size = v - min
  BY <1>1
<1>3. QED
  BY <1>2

\* Read by celery or by python-crontab, an accepted part without a seven in
\* the days of the week stands for the same values.
LEMMA SameValues ==
  ASSUME NEW f \in Fields, NEW p \in Parts, Accepts(Slice[f], p),
         ~(f = "day_of_week" /\ 7 \in {p.from, p.to, p.step})
  PROVE  CeleryExpands(Slice[f], p) = Denotes(Slice[f], p)
<1> DEFINE sl == Slice[f]
           size == sl.max - sl.min + 1
           from == IF p.form = "star" THEN sl.min ELSE p.from
           to == IF p.form = "star" THEN sl.max ELSE p.to
           step == IF p.step = NoStep THEN 1 ELSE p.step
<1>1. /\ p.form \in {"star", "value", "range"} /\ p.from \in Nat /\ p.to \in Nat
      /\ (p.step = NoStep \/ p.step \in Nat) /\ (p.form = "value" => p.to = p.from)
  BY PartFields
<1>2. sl.min \in {0, 1} /\ size \in {7, 12, 24, 31, 60} /\ sl.min < sl.max
      /\ sl.max = sl.min + size - 1
  BY DEF Fields, Slice
<1>3. ~SundayStep(sl, p) /\ ~IsSunday(sl, p.from) /\ ~IsSunday(sl, p.to)
  BY SliceBounds DEF SundayStep, IsSunday
<1>4. step \in Nat \ {0} /\ step = Step(sl, p)
  BY <1>1, <1>3 DEF Accepts, AcceptsStep, Step, NoStep
<1>5. Ends(sl, p) = [from |-> from, to |-> to, dangling |-> {}]
  BY <1>1, <1>3 DEF Ends, FromSunday
<1>6. from \in sl.min..sl.max /\ to \in sl.min..sl.max /\ from <= to
  BY <1>1, <1>2, <1>3, <1>5 DEF Accepts, CanParse, InSlice
<1>7. Denotes(sl, p) = Stepped(from, to, step)
  BY <1>4, <1>5 DEF Denotes
<1>8. CeleryExpands(sl, p) = {sl.min + ((v - sl.min) % size) : v \in Stepped(from, to, step)}
  BY <1>6, <1>2 DEF CeleryExpands
<1>9. \A v \in Stepped(from, to, step) : sl.min + ((v - sl.min) % size) = v
  <2> TAKE v \in Stepped(from, to, step)
  <2>1. v \in sl.min..(sl.min + size - 1)
    BY <1>2, <1>6 DEF Stepped
  <2>2. QED
    BY <1>2, <2>1, NoWrap
<1>10. QED
  BY <1>7, <1>8, <1>9

\* A loaded field that passed validation runs at the times it was validated
\* for.
THEOREM LoadedAsValidatedHolds == Spec => []LoadedAsValidated
<1>1. TypeOK => LoadedAsValidated
  BY SameValues DEF TypeOK, LoadedAsValidated, Sevens
<1>2. QED
  BY <1>1, TypeCorrect, PTL
=============================================================================
