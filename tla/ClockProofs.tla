---------------------------- MODULE ClockProofs -----------------------------
(***************************************************************************)
(* The parish's clock, for every clock that is west of Greenwich and       *)
(* changes twice by its summer hour: the editor's form, for every event,   *)
(* and when the deliveries of an announcement are due, for every setting.  *)
(***************************************************************************)
EXTENDS Schedule, EventTimes, TLAPS

\* A wall time that a clock shows is found again, except the second showing.
LEMMA InstantOfWall ==
  ASSUME NEW t \in Int, ~Again(t)
  PROVE  Instant(wallAt(t)) = t
  BY ClockAssumption, SMT DEF Instant, wallAt, offsetAt, Again

\* Whatever was typed, the clock shows it at the instant found, unless it
\* never shows it.
LEMMA WallOfInstant ==
  ASSUME NEW w \in Int, ~Skipped(w)
  PROVE  Instant(w) \in Int /\ wallAt(Instant(w)) = w
  BY ClockAssumption, SMT DEF Instant, wallAt, offsetAt, Skipped

\* The look-ups of an integer are integers.
LEMMA InstantIsInt ==
  ASSUME NEW w \in Int
  PROVE  Instant(w) \in Int /\ wallAt(w) \in Int
  BY ClockAssumption, SMT DEF Instant, wallAt, offsetAt

\* Minutes are whole: taking the seconds off twice is taking them off once.
LEMMA MinutesOf ==
  /\ \A t \in Int : Minutes(t) \in Int /\ Rounded(t) \in Int
  /\ \A n \in Int : Minutes(Minute * n) = n /\ Rounded(Minute * n) = n
  /\ \A t \in Int : t % Minute = 0 => Minute * Minutes(t) = t /\ Minute * Rounded(t) = t
  BY SMT DEF Minutes, Rounded, Minute

-----------------------------------------------------------------------------
(* The form of an event nobody touched is that event's.                    *)

TimesTypeOK ==
  /\ saved \in [start : Int, end : Int]
  /\ form \in [wall : Int, dur : Nat] \cup {Closed}
  /\ touched \in BOOLEAN /\ saves \in Int

FormInv == TimesTypeOK /\ (form # Closed /\ ~touched => form = fromEvent(saved))

\* The form an event opens with: a minute of the clock, and no negative span.
LEMMA FormOfEvent ==
  ASSUME NEW e \in [start : Int, end : Int]
  PROVE  /\ fromEvent(e) \in [wall : Int, dur : Nat]
         /\ fromEvent(e) # Closed
  <1>1. e.start \in Int /\ e.end - e.start \in Int
    OBVIOUS
  <1>2. wallAt(e.start) \in Int
    BY <1>1, InstantIsInt
  <1>3. Minute * Minutes(wallAt(e.start)) \in Int /\ Rounded(e.end - e.start) \in Int
    BY <1>1, <1>2, MinutesOf, SMT DEF Minute
  <1>4. fromEvent(e).dur \in Nat
    BY <1>3, SMT DEF fromEvent
  <1> QED
    BY <1>3, <1>4, SMT DEF fromEvent, Closed

\* The event a form stands for.
LEMMA EventOfForm ==
  ASSUME NEW f \in [wall : Int, dur : Nat]
  PROVE  toInput(f) \in [start : Int, end : Int]
  <1>1. Instant(f.wall) \in Int
    BY InstantIsInt
  <1> QED
    BY <1>1, SMT DEF toInput, Minute

\* Every step of the editor keeps the form an untouched event's.
LEMMA FormStep ==
  ASSUME FormInv, [TimesNext]_timesVars
  PROVE  FormInv'
  <1> USE DEF FormInv, TimesTypeOK
  <1>1. CASE Open
    <2>1. form' \in [wall : Int, dur : Nat] /\ form' = fromEvent(saved') /\ ~touched'
      BY <1>1, FormOfEvent DEF Open
    <2> QED
      BY <1>1, <2>1 DEF Open
  <1>2. CASE TypeTime
    <2>1. PICK w \in Typed : form' = [form EXCEPT !.wall = w]
      BY <1>2 DEF TypeTime
    <2>2. w \in Int /\ form \in [wall : Int, dur : Nat]
      BY <1>2, TimesAssumption DEF TypeTime
    <2>3. form' \in [wall : Int, dur : Nat]
      BY <2>1, <2>2
    <2> QED
      BY <1>2, <2>3 DEF TypeTime
  <1>3. CASE PickDuration
    <2>1. PICK min \in Durations : form' = [form EXCEPT !.dur = min]
      BY <1>3 DEF PickDuration
    <2>2. min \in Nat /\ form \in [wall : Int, dur : Nat]
      BY <1>3, TimesAssumption DEF PickDuration
    <2>3. form' \in [wall : Int, dur : Nat]
      BY <2>1, <2>2
    <2> QED
      BY <1>3, <2>3 DEF PickDuration
  <1>4. CASE SaveTimes
    <2>1. saved' \in [start : Int, end : Int]
      BY <1>4, EventOfForm DEF SaveTimes
    <2> QED
      BY <1>4, <2>1 DEF SaveTimes
  <1>5. CASE UNCHANGED timesVars
    BY <1>5 DEF timesVars, fromEvent, Closed, Rounded, Minutes, Minute, wallAt, offsetAt
  <1> QED
    BY <1>1, <1>2, <1>3, <1>4, <1>5 DEF TimesNext

\* So an untouched form is always the event's.
LEMMA FormInvariant == TimesSpec => []FormInv
  <1>1. TimesInit => FormInv
    <2> SUFFICES ASSUME TimesInit PROVE FormInv
      OBVIOUS
    <2>1. saved \in [start : Int, end : Int]
      <3>1. Opened \subseteq [start : Int, end : Int]
        BY TimesAssumption
      <3> QED
        BY <3>1 DEF TimesInit
    <2>2. form = Closed /\ touched = FALSE /\ saves \in Int
      BY SMT DEF TimesInit
    <2> QED
      BY <2>1, <2>2 DEF FormInv, TimesTypeOK
  <1>2. FormInv /\ [TimesNext]_timesVars => FormInv'
    BY FormStep
  <1> QED
    BY <1>1, <1>2, PTL DEF TimesSpec

-----------------------------------------------------------------------------
\* Saving the form an event opened with brings that event back.
LEMMA ThereAndBack ==
  ASSUME NEW e \in [start : Int, end : Int], Tidy(e), ~Again(e.start)
  PROVE  toInput(fromEvent(e)) = e
  <1> DEFINE span == e.end - e.start
  <1>1. e.start \in Int /\ span \in Int /\ span >= 0
    BY SMT DEF Tidy
  <1>2. wallAt(e.start) \in Int /\ wallAt(e.start) % Minute = 0
    BY <1>1, TimesAssumption, ClockAssumption, SMT DEF Tidy, wallAt, offsetAt, Minute
  <1>3. Minute * Minutes(wallAt(e.start)) = wallAt(e.start)
    BY <1>2, MinutesOf
  <1>4. span % Minute = 0
    BY DEF Tidy
  <1>5. Rounded(span) \in Int /\ Minute * Rounded(span) = span
    BY <1>1, <1>4, MinutesOf
  <1>6. Rounded(span) >= 0
    BY <1>1, <1>5, SMT DEF Minute
  <1>7. Minute * (IF Rounded(span) > 0 THEN Rounded(span) ELSE 0) = span
    BY <1>5, <1>6, SMT DEF Minute
  <1>8. fromEvent(e) = [wall |-> wallAt(e.start), dur |-> IF Rounded(span) > 0 THEN Rounded(span) ELSE 0]
    BY <1>3 DEF fromEvent
  <1>9. toInput(fromEvent(e)) = [start |-> e.start, end |-> e.start + span]
    BY <1>1, <1>7, <1>8, InstantOfWall DEF toInput
  <1>10. e.start + span = e.end
    BY <1>1, SMT
  <1> QED
    BY <1>9, <1>10

\* A saved form is read back as it was, but for the seconds.
LEMMA BackAndThere ==
  ASSUME NEW f \in [wall : Int, dur : Nat], ~Skipped(f.wall)
  PROVE  fromEvent(toInput(f)) = [f EXCEPT !.wall = Minute * Minutes(@)]
  <1>1. Instant(f.wall) \in Int /\ wallAt(Instant(f.wall)) = f.wall
    BY WallOfInstant
  <1>2. toInput(f).start = Instant(f.wall) /\ toInput(f).end - toInput(f).start = Minute * f.dur
    BY <1>1, SMT DEF toInput, Minute
  <1>3. Rounded(Minute * f.dur) = f.dur
    BY MinutesOf
  <1>4. fromEvent(toInput(f)) = [wall |-> Minute * Minutes(f.wall), dur |-> f.dur]
    <2>1. fromEvent(toInput(f)) = [wall |-> Minute * Minutes(f.wall), dur |-> IF f.dur > 0 THEN f.dur ELSE 0]
      BY <1>1, <1>2, <1>3 DEF fromEvent
    <2>2. (IF f.dur > 0 THEN f.dur ELSE 0) = f.dur
      BY SMT
    <2> QED
      BY <2>1, <2>2
  <1> QED
    BY <1>4

(***************************************************************************)
(* An event opened and saved untouched keeps its start and its end, for    *)
(* every parish clock, every event and however often it is opened: what    *)
(* the two lookups of parishToISO are for.                                 *)
(***************************************************************************)
THEOREM OpeningMovesNothing == TimesSpec => UntouchedStays
  <1>1. ASSUME FormInv, [TimesNext]_timesVars
        PROVE  [form # Closed /\ ~touched /\ Tidy(saved) /\ ~Again(saved.start)
                 => UNCHANGED saved]_timesVars
    <2> SUFFICES ASSUME form # Closed, ~touched, Tidy(saved), ~Again(saved.start)
                 PROVE  UNCHANGED saved
      OBVIOUS
    <2>1. CASE SaveTimes
      <3>1. form = fromEvent(saved) /\ saved \in [start : Int, end : Int]
        BY <1>1 DEF FormInv, TimesTypeOK
      <3> QED
        BY <2>1, <3>1, ThereAndBack DEF SaveTimes
    <2>2. CASE ~SaveTimes
      BY <1>1, <2>2 DEF TimesNext, Open, TypeTime, PickDuration, timesVars
    <2> QED
      BY <2>1, <2>2
  <1> QED
    BY <1>1, FormInvariant, PTL DEF TimesSpec, UntouchedStays

(***************************************************************************)
(* What is saved is what was typed, for every parish clock, unless no      *)
(* clock ever shows that time.                                             *)
(***************************************************************************)
THEOREM SavingKeepsTheTime == TimesSpec => SavedAsTyped
  <1>1. ASSUME FormInv, [TimesNext]_timesVars
        PROVE  [saves' # saves /\ ~Skipped(form.wall) =>
                  fromEvent(saved') = [form EXCEPT !.wall = Minute * Minutes(@)]]_timesVars
    <2> SUFFICES ASSUME saves' # saves, ~Skipped(form.wall)
                 PROVE  fromEvent(saved') = [form EXCEPT !.wall = Minute * Minutes(@)]
      OBVIOUS
    <2>1. SaveTimes
      BY <1>1 DEF TimesNext, Open, TypeTime, PickDuration, timesVars
    <2>2. form \in [wall : Int, dur : Nat] /\ saved' = toInput(form)
      BY <1>1, <2>1 DEF SaveTimes, FormInv, TimesTypeOK
    <2> QED
      BY <2>2, BackAndThere
  <1> QED
    BY <1>1, FormInvariant, PTL DEF TimesSpec, SavedAsTyped

-----------------------------------------------------------------------------
(* Arithmetic of days and hours.                                          *)

\* Multiples of d keep their order, d apart.
LEMMA TimesMore ==
  ASSUME NEW d \in Int, d > 0, NEW a \in Int, NEW b \in Int
  PROVE  /\ d * a \in Int
         /\ a < b => d * a + d <= d * b
         /\ a <= b <=> d * a <= d * b
  <1>1. ASSUME NEW x \in Int, x >= 0 PROVE d * x \in Int /\ d * x >= 0
    BY <1>1, SMT
  <1>2. d * a \in Int /\ d * b \in Int /\ d * (b - a) = d * b - d * a
    BY SMT
  <1>3. a < b => d * (b - a - 1) >= 0 /\ d * (b - a - 1) = d * b - d * a - d
    BY <1>1, SMT
  <1>4. b < a => d * (a - b - 1) >= 0 /\ d * (a - b - 1) = d * a - d * b - d
    BY <1>1, SMT
  <1> QED
    BY <1>2, <1>3, <1>4, SMT

\* The quotient and the remainder of a whole number.
LEMMA DivMod ==
  ASSUME NEW d \in Int, d > 0, NEW w \in Int
  PROVE  /\ w \div d \in Int /\ w % d \in Int
         /\ w = d * (w \div d) + (w % d) /\ 0 <= w % d /\ w % d < d
  BY SMT

\* A number a remainder above a multiple has that remainder.
LEMMA Remainder ==
  ASSUME NEW d \in Int, d > 0, NEW k \in Int, NEW x \in Int, 0 <= x, x < d
  PROVE  (d * k + x) % d = x /\ (d * k + x) \div d = k
  <1> DEFINE w == d * k + x
  <1>1. w \in Int /\ d * k \in Int
    BY TimesMore
  <1>2. /\ w \div d \in Int /\ w % d \in Int
        /\ w = d * (w \div d) + (w % d) /\ 0 <= w % d /\ w % d < d
    BY <1>1, DivMod
  <1> HIDE DEF w
  <1>3. d * (w \div d) \in Int
    BY <1>2, TimesMore
  <1>6. w = d * k + x
    BY DEF w
  <1>4. ~(w \div d < k)
    <2> SUFFICES ASSUME w \div d < k PROVE FALSE
      OBVIOUS
    <2>1. d * (w \div d) + d <= d * k
      BY <1>2, TimesMore
    <2> QED
      BY <2>1, <1>1, <1>2, <1>3, <1>6, SMT
  <1>5. ~(k < w \div d)
    <2> SUFFICES ASSUME k < w \div d PROVE FALSE
      OBVIOUS
    <2>1. d * k + d <= d * (w \div d)
      BY <1>2, TimesMore
    <2> QED
      BY <2>1, <1>1, <1>2, <1>3, <1>6, SMT
  <1>7. w \div d = k
    BY <1>2, <1>4, <1>5, SMT
  <1>8. w % d = x
    BY <1>1, <1>2, <1>6, <1>7, SMT
  <1> QED
    BY <1>7, <1>8 DEF w

\* The whole hours of the clock face, and the midnights.
At(h) == h * Ticks
Dawn(M) == M \in Int /\ M % Day = 0

\* A day is twenty-four hours, and an hour some ticks.
LEMMA DayFacts ==
  Ticks \in Int /\ Ticks > 0 /\ Day \in Int /\ Day = 24 * Ticks /\ Day > 0
  BY ScheduleAssumption, SMT DEF Day

\* The whole hours of a day, in order and a number of ticks apart.
LEMMA WholeHours ==
  ASSUME NEW h \in Int, NEW k \in Int
  PROVE  /\ At(h) \in Int
         /\ h < k => At(h) + Ticks <= At(k)
         /\ h <= k <=> At(h) <= At(k)
         /\ At(h - 1) = At(h) - Ticks /\ At(h + 1) = At(h) + Ticks
         /\ At(0) = 0 /\ At(24) = Day
  <1>1. Ticks \in Int /\ Ticks > 0 /\ Day = 24 * Ticks
    BY DayFacts
  <1>2. At(h) = Ticks * h /\ At(k) = Ticks * k
    BY <1>1, SMT DEF At
  <1>3. At(h) \in Int /\ (h < k => At(h) + Ticks <= At(k)) /\ (h <= k <=> At(h) <= At(k))
    BY <1>1, <1>2, TimesMore
  <1>4. At(h - 1) = At(h) - Ticks /\ At(h + 1) = At(h) + Ticks
    BY <1>1, SMT DEF At
  <1> QED
    BY <1>1, <1>3, <1>4, SMT DEF At

\* Midnights are a day apart, and what is between them is a time of day.
LEMMA Dawns ==
  ASSUME NEW M, Dawn(M)
  PROVE  /\ \A w \in Int : M <= w /\ w < M + Day => w % Day = w - M
         /\ Dawn(M + Day)
         /\ \A N : Dawn(N) /\ M < N => M + Day <= N
  <1> USE DEF Dawn
  <1>1. Day \in Int /\ Day > 0 /\ M \in Int
    BY DayFacts
  <1>2. M \div Day \in Int /\ M = Day * (M \div Day)
    BY <1>1, DivMod, SMT
  <1>3. ASSUME NEW w \in Int, M <= w, w < M + Day PROVE w % Day = w - M
    <2>1. w - M \in Int /\ 0 <= w - M /\ w - M < Day
      BY <1>1, <1>3, SMT
    <2>2. (Day * (M \div Day) + (w - M)) % Day = w - M
      BY <1>1, <1>2, <2>1, Remainder
    <2>3. Day * (M \div Day) + (w - M) = w
      BY <1>1, <1>2, SMT
    <2> QED
      BY <2>2, <2>3
  <1>4. Dawn(M + Day)
    <2>1. (M \div Day) + 1 \in Int
      BY <1>2, SMT
    <2>2. (Day * ((M \div Day) + 1) + 0) % Day = 0
      BY <1>1, <2>1, Remainder, SMT
    <2>3. Day * ((M \div Day) + 1) + 0 = M + Day
      BY <1>1, <1>2, SMT
    <2> QED
      BY <1>1, <2>2, <2>3, SMT
  <1>5. ASSUME NEW N, Dawn(N), M < N PROVE M + Day <= N
    <2>1. ~(N < M + Day)
      BY <1>1, <1>3, <1>5, SMT
    <2> QED
      BY <1>1, <1>5, <2>1, SMT
  <1> QED
    BY <1>3, <1>4, <1>5

\* What NextAllowed takes of an instant, its date and its hour, place it in its day.
LEMMA TimeOfDay ==
  ASSUME NEW t \in Int
  PROVE  /\ wallAt(t) \in Int /\ Dawn(Midnight(t))
         /\ Midnight(t) <= wallAt(t) /\ wallAt(t) < Midnight(t) + Day
         /\ HourOf(t) \in 0..23
         /\ \A h \in Int : h <= HourOf(t) <=> Midnight(t) + At(h) <= wallAt(t)
  <1> DEFINE w == wallAt(t)
             m == w % Day
  <1>1. w \in Int
    BY ClockAssumption, SMT DEF wallAt, offsetAt
  <1>2. Day \in Int /\ Day > 0 /\ Ticks \in Int /\ Ticks > 0
    BY DayFacts
  <1> HIDE DEF w
  <1>3. /\ w \div Day \in Int /\ m \in Int
        /\ w = Day * (w \div Day) + m /\ 0 <= m /\ m < Day
    BY <1>1, <1>2, DivMod
  <1>4. Midnight(t) = w - m
    BY DEF Midnight, w
  <1>5. (w - m) % Day = 0
    <2>0. 0 \in Int /\ 0 <= 0 /\ 0 < Day
      BY <1>2, SMT
    <2>1. (Day * (w \div Day) + 0) % Day = 0
      BY <1>2, <1>3, <2>0, Remainder
    <2>2. Day * (w \div Day) + 0 = w - m
      BY <1>2, <1>3, SMT
    <2> QED
      BY <2>1, <2>2
  <1>6. HourOf(t) = m \div Ticks
    BY DEF HourOf, w
  <1> HIDE DEF m
  <1>7. /\ HourOf(t) \in Int /\ m % Ticks \in Int
        /\ m = Ticks * HourOf(t) + (m % Ticks) /\ 0 <= m % Ticks /\ m % Ticks < Ticks
    BY <1>2, <1>3, <1>6, DivMod
  <1>8. At(HourOf(t)) = Ticks * HourOf(t)
    BY <1>2, <1>7, SMT DEF At
  <1>9. At(HourOf(t)) <= m /\ m < At(HourOf(t)) + Ticks /\ At(HourOf(t)) \in Int
    <2>1. At(HourOf(t)) \in Int
      BY <1>7, WholeHours
    <2>2. m = At(HourOf(t)) + (m % Ticks)
      BY <1>7, <1>8
    <2> QED
      BY <1>2, <1>3, <1>7, <2>1, <2>2, SMT
  <1>10. ASSUME NEW h \in Int PROVE h <= HourOf(t) <=> At(h) <= m
    <2>1. h <= HourOf(t) => At(h) <= At(HourOf(t)) /\ At(h) \in Int
      BY <1>7, WholeHours
    <2>2. HourOf(t) < h => At(HourOf(t)) + Ticks <= At(h) /\ At(h) \in Int
      BY <1>7, WholeHours
    <2> QED
      BY <1>2, <1>3, <1>7, <1>9, <2>1, <2>2, SMT
  <1>11. HourOf(t) \in 0..23
    <2>1. 0 <= HourOf(t) <=> At(0) <= m
      BY <1>10
    <2>2. 24 <= HourOf(t) <=> At(24) <= m
      BY <1>10
    <2>3. At(0) = 0 /\ At(24) = Day
      BY WholeHours
    <2>4. HourOf(t) \in Int
      BY <1>7
    <2>5. 0 <= HourOf(t) /\ ~(24 <= HourOf(t))
      BY <1>2, <1>3, <2>1, <2>2, <2>3, SMT
    <2> QED
      BY <2>4, <2>5, SMT
  <1>12. ASSUME NEW h \in Int PROVE h <= HourOf(t) <=> Midnight(t) + At(h) <= w
    <2>1. At(h) \in Int
      BY WholeHours
    <2> QED
      BY <1>1, <1>3, <1>4, <1>10, <2>1, SMT
  <1>13. Dawn(Midnight(t)) /\ Midnight(t) <= w /\ w < Midnight(t) + Day
    BY <1>1, <1>2, <1>3, <1>4, <1>5, SMT DEF Dawn
  <1> QED
    BY <1>1, <1>11, <1>12, <1>13 DEF w

\* They are integers.
LEMMA TimeTypes ==
  ASSUME NEW t \in Int
  PROVE  wallAt(t) \in Int /\ HourOf(t) \in Int /\ Midnight(t) \in Int /\ Dawn(Midnight(t))
  <1>1. HourOf(t) \in 0..23 /\ wallAt(t) \in Int /\ Dawn(Midnight(t))
    BY TimeOfDay
  <1>2. HourOf(t) \in Int
    BY <1>1, SMT
  <1> QED
    BY <1>1, <1>2 DEF Dawn

\* An instant whose wall time is in a day has that day's midnight.
LEMMA DayOf ==
  ASSUME NEW t \in Int, NEW M, Dawn(M), M <= wallAt(t), wallAt(t) < M + Day
  PROVE  Midnight(t) = M
  <1>1. wallAt(t) \in Int
    BY TimeOfDay
  <1>2. wallAt(t) % Day = wallAt(t) - M
    BY <1>1, Dawns
  <1> QED
    BY <1>1, <1>2, SMT DEF Midnight, Dawn

-----------------------------------------------------------------------------
(* The clock over its changes.                                             *)

\* The wall time at which autumn goes back; the first instant at a wall time or
\* after it; the wall time that opens for a held instant; and what holds one.
Back == Autumn + Summer
FirstAt(w) == IF Skipped(w) THEN Spring ELSE Instant(w)
Opens(t, end) == Midnight(t) + At(end) + (IF HourOf(t) >= end THEN Day ELSE 0)
Holds(t, start, end) ==
  start \in 0..23 /\ end \in 0..23 /\ start # end /\ Quiet(HourOf(t), start, end)

\* What is assumed of the clock, without the sets.
LEMMA ClockFacts ==
  /\ Winter \in Int /\ Summer \in Int /\ Spring \in Int /\ Autumn \in Int
  /\ Summer = Winter + Ticks /\ Summer <= 0 /\ Spring - Winter <= Autumn
  BY ClockAssumption, SummerAssumption

\* The instant time.Date finds for a wall time: within the hour the clock changes
\* by, and before it no clock shows that wall time yet.
LEMMA Found ==
  ASSUME NEW w \in Int
  PROVE  /\ Instant(w) \in Int /\ FirstAt(w) \in Int
         /\ w - Summer <= Instant(w) /\ Instant(w) <= w - Winter
         /\ Instant(w) <= FirstAt(w)
         /\ wallAt(Instant(w)) = (IF Skipped(w) THEN w - Ticks ELSE w)
         /\ Skipped(w) => Instant(w) < Spring
         /\ \A u \in Int : u < FirstAt(w) => wallAt(u) < w
  <1>1. Ticks \in Int /\ Ticks > 0
    BY DayFacts
  <1>2. CASE Skipped(w)
    BY <1>1, <1>2, ClockFacts, SMT DEF FirstAt, Instant, wallAt, offsetAt, Skipped
  <1>3. CASE ~Skipped(w)
    BY <1>1, <1>3, ClockFacts, SMT DEF FirstAt, Instant, wallAt, offsetAt, Skipped
  <1> QED
    BY <1>2, <1>3

\* Wall times an hour apart are found in their order.
LEMMA HourApart ==
  ASSUME NEW v \in Int, NEW w \in Int, v = w \/ v + Ticks <= w
  PROVE  Instant(v) <= Instant(w)
  <1>1. CASE v = w
    BY <1>1, Found, SMT
  <1>2. CASE v + Ticks <= w
    <2>1. Instant(v) \in Int /\ Instant(v) <= v - Winter
      BY Found
    <2>2. Instant(w) \in Int /\ w - Summer <= Instant(w)
      BY Found
    <2> QED
      BY <1>2, <2>1, <2>2, DayFacts, ClockFacts, SMT
  <1> QED
    BY <1>1, <1>2

\* A later instant has a later wall time, but for the hour that autumn repeats.
LEMMA Later ==
  ASSUME NEW t \in Int, NEW u \in Int, t <= u
  PROVE  \/ wallAt(t) <= wallAt(u)
         \/ /\ Back - Ticks <= wallAt(u)
            /\ Back - Ticks < wallAt(t) /\ wallAt(t) < Back
  BY DayFacts, ClockFacts, SMT DEF wallAt, offsetAt, Back

\* The clock changes at a whole hour of some day, after its midnight.
LEMMA ChangeOnTheHour ==
  ASSUME NEW change \in {Spring + Winter, Back}
  PROVE  \E M, h : Dawn(M) /\ h \in 1..23 /\ change = M + At(h)
  <1>1. change \in Int
    BY ClockFacts, SMT DEF Back
  <1>2. PICK h \in 1..23 : change % Day = h * Ticks
    BY SummerAssumption DEF Back
  <1>3. Day \in Int /\ Day > 0
    BY DayFacts
  <1>4. /\ change \div Day \in Int /\ change % Day \in Int
        /\ change = Day * (change \div Day) + (change % Day)
    BY <1>1, <1>3, DivMod
  <1>5. Dawn(change - (change % Day))
    <2>1. 0 \in Int /\ 0 <= 0 /\ 0 < Day
      BY <1>3, SMT
    <2>2. (Day * (change \div Day) + 0) % Day = 0
      BY <1>3, <1>4, <2>1, Remainder
    <2>3. Day * (change \div Day) + 0 = change - (change % Day)
      BY <1>1, <1>3, <1>4, SMT
    <2> QED
      BY <1>1, <1>4, <2>2, <2>3, SMT DEF Dawn
  <1>6. change = (change - (change % Day)) + At(h)
    BY <1>1, <1>2, <1>4, SMT DEF At
  <1> QED
    BY <1>5, <1>6

\* Between two whole hours of the clock there is none.
LEMMA OnTheHour ==
  ASSUME NEW M, Dawn(M), NEW h \in 0..23, NEW N, Dawn(N), NEW k \in 1..24,
         N + At(k) - Ticks < M + At(h), M + At(h) < N + At(k)
  PROVE  FALSE
  <1>1. /\ Ticks \in Int /\ Ticks > 0 /\ Day \in Int /\ Day = 24 * Ticks
        /\ M \in Int /\ N \in Int /\ h \in Int /\ k \in Int
    BY DayFacts DEF Dawn
  <1>2. At(h) \in Int /\ At(k) \in Int /\ 0 <= At(h) /\ At(h) + Ticks <= Day
        /\ Ticks <= At(k) /\ At(k) <= Day
    <2>1. At(0) = 0 /\ At(24) = Day /\ At(h) \in Int /\ At(k) \in Int
      BY <1>1, WholeHours
    <2>2. 0 <= h /\ h < 24 /\ 0 < k /\ k <= 24
      BY SMT
    <2>3. At(0) <= At(h) /\ At(h) + Ticks <= At(24) /\ At(0) + Ticks <= At(k) /\ At(k) <= At(24)
      BY <1>1, <2>2, WholeHours
    <2> QED
      BY <1>1, <2>1, <2>3, SMT
  <1>3. CASE M < N
    <2>1. M + Day <= N
      BY <1>3, Dawns
    <2> QED
      BY <1>1, <1>2, <2>1, SMT
  <1>4. CASE N < M
    <2>1. N + Day <= M
      BY <1>4, Dawns
    <2> QED
      BY <1>1, <1>2, <2>1, SMT
  <1>5. CASE M = N
    <2>1. At(k - 1) = At(k) - Ticks
      BY <1>1, WholeHours
    <2>2. k - 1 < h \/ h <= k - 1
      BY <1>1, SMT
    <2>3. h < k \/ k <= h
      BY <1>1, SMT
    <2>4. k <= h => At(k) <= At(h)
      BY <1>1, WholeHours
    <2>5. h < k => At(h) + Ticks <= At(k)
      BY <1>1, WholeHours
    <2> QED
      BY <1>1, <1>2, <1>5, <2>3, <2>4, <2>5, SMT
  <1> QED
    BY <1>1, <1>3, <1>4, <1>5, SMT

\* Once a whole hour of a day is reached, the wall time never goes back before it.
LEMMA NeverBackBefore ==
  ASSUME NEW t \in Int, NEW u \in Int, t <= u, NEW h \in 0..23,
         Midnight(t) + At(h) <= wallAt(t)
  PROVE  Midnight(t) + At(h) <= wallAt(u)
  <1>1. CASE wallAt(t) <= wallAt(u)
    <2>1. wallAt(t) \in Int /\ wallAt(u) \in Int /\ Midnight(t) \in Int
      BY TimeOfDay DEF Dawn
    <2>2. h \in Int
      BY SMT
    <2>3. At(h) \in Int
      BY <2>2, WholeHours
    <2> QED
      BY <1>1, <2>1, <2>3, SMT
  <1>2. CASE /\ Back - Ticks <= wallAt(u)
             /\ Back - Ticks < wallAt(t) /\ wallAt(t) < Back
    <2>1. PICK M, k : Dawn(M) /\ k \in 1..23 /\ Back = M + At(k)
      BY ChangeOnTheHour
    <2>2. /\ Ticks \in Int /\ Ticks > 0 /\ Day \in Int /\ Day = 24 * Ticks
          /\ M \in Int /\ h \in Int /\ k \in Int /\ wallAt(t) \in Int /\ wallAt(u) \in Int
          /\ Dawn(Midnight(t)) /\ Midnight(t) \in Int
      BY <2>1, DayFacts, TimeOfDay DEF Dawn
    <2>3. At(h) \in Int /\ At(k) \in Int
      BY <2>2, WholeHours
    <2>4. ~(Back - Ticks < Midnight(t) + At(h) /\ Midnight(t) + At(h) < Back)
      <3>1. k \in 1..24
        BY <2>1, SMT
      <3>2. SUFFICES ASSUME M + At(k) - Ticks < Midnight(t) + At(h), Midnight(t) + At(h) < M + At(k)
                     PROVE  FALSE
        BY <2>1, <2>2, <2>3, SMT
      <3> QED
        BY <2>1, <2>2, <3>1, <3>2, OnTheHour
    <2> QED
      BY <1>2, <2>1, <2>2, <2>3, <2>4, SMT
  <1> QED
    BY <1>1, <1>2, Later

\* The instant found for a whole hour to come is not in the past.
LEMMA NotBefore ==
  ASSUME NEW t \in Int, NEW M, Dawn(M), NEW h \in 0..23,
         ~Skipped(M + At(h)), wallAt(t) < M + At(h)
  PROVE  t <= Instant(M + At(h))
  <1> DEFINE w == M + At(h)
  <1>1. w \in Int /\ M \in Int /\ At(h) \in Int
    BY WholeHours, SMT DEF Dawn
  <1>2. Instant(w) \in Int /\ wallAt(Instant(w)) = w
    BY <1>1, Found
  <1>3. SUFFICES ASSUME Instant(w) < t PROVE FALSE
    BY <1>1, <1>2, SMT
  <1>4. wallAt(t) \in Int
    BY TimeOfDay
  <1>5. Back - Ticks < w /\ w < Back
    BY <1>1, <1>2, <1>3, <1>4, Later, SMT
  <1>6. PICK N, k : Dawn(N) /\ k \in 1..23 /\ Back = N + At(k)
    BY ChangeOnTheHour
  <1>7. k \in 1..24
    BY <1>6, SMT
  <1>8. N + At(k) - Ticks < M + At(h) /\ M + At(h) < N + At(k)
    <2>1. N \in Int /\ k \in Int /\ Ticks \in Int
      BY <1>6, DayFacts DEF Dawn
    <2>2. At(k) \in Int
      BY <2>1, WholeHours
    <2> QED
      BY <1>1, <1>5, <1>6, <2>1, <2>2, SMT
  <1> QED
    BY <1>6, <1>7, <1>8, OnTheHour

-----------------------------------------------------------------------------
(* The quiet hours.                                                        *)

\* From a held instant on, every instant is held until the wall time that opens.
LEMMA HeldUntilOpen ==
  ASSUME NEW t \in Int, NEW u \in Int, t <= u, NEW start, NEW end,
         Holds(t, start, end), wallAt(u) < Opens(t, end)
  PROVE  Holds(u, start, end)
  <1> DEFINE M == Midnight(t)
  <1>1. /\ start \in 0..23 /\ end \in 0..23 /\ start # end /\ start \in Int /\ end \in Int
        /\ Quiet(HourOf(t), start, end)
    BY SMT DEF Holds
  <1>2. /\ wallAt(t) \in Int /\ wallAt(u) \in Int /\ Dawn(M) /\ M \in Int
        /\ HourOf(t) \in Int /\ HourOf(u) \in Int
    BY TimeTypes
  <1>3. Day \in Int /\ At(start) \in Int /\ At(end) \in Int /\ At(end) <= Day /\ At(0) = 0
    <2>1. end < 24 /\ 24 \in Int
      BY <1>1, SMT
    <2>2. At(end) \in Int /\ At(start) \in Int /\ At(end) <= At(24)
      BY <1>1, <2>1, WholeHours, SMT
    <2> QED
      BY <2>2, DayFacts, WholeHours, SMT
  <1>4. start <= HourOf(t) => M + At(start) <= wallAt(u)
    BY <1>1, TimeOfDay, NeverBackBefore
  <1>5. M <= wallAt(u)
    <2>1. 0 \in 0..23 /\ M + At(0) = M /\ M <= wallAt(t)
      BY <1>2, <1>3, TimeOfDay, SMT
    <2>2. M + At(0) <= wallAt(u)
      BY <2>1, NeverBackBefore
    <2> QED
      BY <2>1, <2>2
  <1> HIDE DEF M
  <1>6. ASSUME wallAt(u) < M + Day
        PROVE  /\ start <= HourOf(u) <=> M + At(start) <= wallAt(u)
               /\ end <= HourOf(u) <=> M + At(end) <= wallAt(u)
    <2>1. Midnight(u) = M
      BY <1>2, <1>5, <1>6, DayOf
    <2> QED
      BY <1>1, <2>1, TimeOfDay
  <1>7. CASE HourOf(t) < end
    <2>1. wallAt(u) < M + At(end)
      BY <1>1, <1>2, <1>3, <1>7, SMT DEF Opens, M
    <2>2. wallAt(u) < M + Day
      BY <1>2, <1>3, <2>1, SMT
    <2>3. ~(end <= HourOf(u))
      BY <1>2, <1>3, <1>6, <2>1, <2>2, SMT
    <2>4. start <= HourOf(t) => start <= HourOf(u)
      BY <1>4, <1>6, <2>2
    <2> QED
      BY <1>1, <1>2, <2>3, <2>4, SMT DEF Holds, Quiet
  <1>8. CASE end <= HourOf(t)
    <2>1. start > end /\ start <= HourOf(t)
      BY <1>1, <1>2, <1>8, SMT DEF Quiet
    <2>2. wallAt(u) < M + Day + At(end)
      BY <1>1, <1>2, <1>3, <1>8, SMT DEF Opens, M
    <2>3. CASE wallAt(u) < M + Day
      BY <1>1, <1>2, <1>4, <1>6, <2>1, <2>3, SMT DEF Holds, Quiet
    <2>4. CASE M + Day <= wallAt(u)
      <3>1. Dawn(M + Day) /\ wallAt(u) < (M + Day) + Day
        BY <1>2, <1>3, <2>2, Dawns, SMT
      <3>2. Midnight(u) = M + Day
        BY <2>4, <3>1, DayOf
      <3>3. ~(end <= HourOf(u))
        BY <1>1, <1>2, <1>3, <2>2, <3>2, TimeOfDay, SMT
      <3> QED
        BY <1>1, <1>2, <2>1, <3>3, SMT DEF Holds, Quiet
    <2> QED
      BY <1>2, <1>3, <2>3, <2>4, SMT
  <1> QED
    BY <1>1, <1>2, <1>7, <1>8, SMT

\* The wall time that opens is within a day, at a whole hour, and it is free.
LEMMA OpensFacts ==
  ASSUME NEW t \in Int, NEW start, NEW end, Holds(t, start, end)
  PROVE  /\ Opens(t, end) \in Int
         /\ wallAt(t) < Opens(t, end) /\ Opens(t, end) <= wallAt(t) + Day
         /\ \E M : Dawn(M) /\ Opens(t, end) = M + At(end)
         /\ \A u \in Int : wallAt(u) = Opens(t, end) => ~Holds(u, start, end)
  <1> DEFINE M == Midnight(t)
             O == IF HourOf(t) >= end THEN M + Day ELSE M
  <1>1. /\ start \in 0..23 /\ end \in 0..23 /\ start # end /\ start \in Int /\ end \in Int
    BY SMT DEF Holds
  <1>2. /\ wallAt(t) \in Int /\ Dawn(M) /\ M \in Int /\ HourOf(t) \in Int
        /\ M <= wallAt(t) /\ wallAt(t) < M + Day
        /\ end <= HourOf(t) <=> M + At(end) <= wallAt(t)
    BY <1>1, TimeOfDay, TimeTypes
  <1>3. Day \in Int /\ Ticks \in Int /\ Ticks > 0 /\ At(end) \in Int
        /\ 0 <= At(end) /\ At(end) + Ticks <= Day
    <2>1. 0 <= end /\ end < 24 /\ 0 \in Int /\ 24 \in Int
      BY <1>1, SMT
    <2>2. At(end) \in Int /\ At(0) <= At(end) /\ At(end) + Ticks <= At(24) /\ At(0) = 0 /\ At(24) = Day
      BY <1>1, <2>1, WholeHours
    <2> QED
      BY <2>2, DayFacts, SMT
  <1>4. Dawn(O) /\ O \in Int
    BY <1>2, Dawns DEF Dawn
  <1>5. Opens(t, end) = O + At(end)
    BY <1>2, <1>3, SMT DEF Opens
  <1>6. wallAt(t) < Opens(t, end) /\ Opens(t, end) <= wallAt(t) + Day
    BY <1>1, <1>2, <1>3, <1>5, SMT
  <1> HIDE DEF O, M
  <1>7. ASSUME NEW u \in Int, wallAt(u) = O + At(end), Holds(u, start, end)
        PROVE  FALSE
    <2>1. O <= wallAt(u) /\ wallAt(u) < O + Day
      BY <1>3, <1>4, <1>7, SMT
    <2>2. Midnight(u) = O
      BY <1>4, <2>1, DayOf
    <2>3. end <= HourOf(u) /\ HourOf(u) \in Int
      <3>1. wallAt(u) \in Int /\ HourOf(u) \in Int
        BY TimeOfDay, SMT
      <3>2. Midnight(u) + At(end) <= wallAt(u)
        BY <1>7, <2>2, <3>1, SMT
      <3> QED
        BY <1>1, <3>1, <3>2, TimeOfDay
    <2>4. end < start /\ start <= HourOf(u)
      BY <1>1, <1>7, <2>3, SMT DEF Holds, Quiet
    <2>5. O + At(start) <= wallAt(u) /\ At(end) + Ticks <= At(start) /\ At(start) \in Int
      BY <1>1, <2>2, <2>4, TimeOfDay, WholeHours
    <2> QED
      BY <1>3, <1>4, <1>7, <2>5, SMT
  <1>8. Opens(t, end) \in Int
    BY <1>3, <1>4, <1>5, SMT
  <1> QED
    BY <1>4, <1>5, <1>6, <1>7, <1>8

\* NextAllowed leaves a free instant alone.
LEMMA NotHeld ==
  ASSUME NEW t \in Int, NEW start \in Int, NEW end \in Int, ~Holds(t, start, end)
  PROVE  NextAllowed(t, start, end) = t
  BY SMT DEF Holds, NextAllowed, ValidHour

\* What NextAllowed finds for a held instant: the wall time that opens, or an hour
\* before it, when the look-up of today's went through a skipped hour.
LEMMA Released ==
  ASSUME NEW t \in Int, NEW start, NEW end, Holds(t, start, end)
  PROVE  \/ NextAllowed(t, start, end) = Instant(Opens(t, end))
         \/ /\ HourOf(t) >= end /\ Skipped(Opens(t, end) - Day)
            /\ NextAllowed(t, start, end) = Instant(Opens(t, end) - Ticks)
  <1> DEFINE w == Midnight(t) + At(end)
  <1>1. /\ start \in 0..23 /\ end \in 0..23 /\ start # end /\ start \in Int /\ end \in Int
    BY SMT DEF Holds
  <1>2. /\ Day \in Int /\ Ticks \in Int /\ w \in Int
        /\ Midnight(t) \in Int /\ HourOf(t) \in Int /\ At(end) \in Int
    <2>1. Midnight(t) \in Int /\ HourOf(t) \in Int
      BY TimeTypes
    <2>2. At(end) \in Int
      BY <1>1, WholeHours
    <2> QED
      BY <2>1, <2>2, DayFacts, SMT
  <1>3. NextAllowed(t, start, end) = IF HourOf(t) >= end THEN NextDay(Instant(w)) ELSE Instant(w)
    BY SMT DEF Holds, NextAllowed, ValidHour, At
  <1>4. CASE HourOf(t) >= end
    <2>1. Opens(t, end) = w + Day
      BY <1>2, <1>4, SMT DEF Opens
    <2>2. NextDay(Instant(w)) = Instant((IF Skipped(w) THEN w - Ticks ELSE w) + Day)
      BY <1>2, Found DEF NextDay
    <2>3. /\ Opens(t, end) - Day = w
          /\ Opens(t, end) - Ticks = (w - Ticks) + Day
      BY <1>2, <2>1, SMT
    <2> QED
      BY <1>3, <1>4, <2>1, <2>2, <2>3
  <1>5. CASE ~(HourOf(t) >= end)
    <2>1. Opens(t, end) = w
      BY <1>2, <1>5, SMT DEF Opens
    <2> QED
      BY <1>3, <1>5, <2>1
  <1> QED
    BY <1>4, <1>5

\* Unless the change skips the hour, a held delivery is due at the first free instant.
LEMMA FirstFree ==
  ASSUME NEW t \in Int, NEW start, NEW end, Holds(t, start, end),
         ~Skipped(Opens(t, end)),
         HourOf(t) >= end => ~Skipped(Opens(t, end) - Day)
  PROVE  LET r == NextAllowed(t, start, end)
         IN  /\ r \in Int /\ t <= r /\ r <= t + 2 * Day /\ ~Holds(r, start, end)
             /\ \A u \in Int : t <= u /\ u < r => Holds(u, start, end)
  <1> DEFINE w == Opens(t, end)
  <1>1. end \in 0..23
    BY DEF Holds
  <1>2. /\ w \in Int /\ wallAt(t) < w /\ w <= wallAt(t) + Day
        /\ \A u \in Int : wallAt(u) = w => ~Holds(u, start, end)
    BY OpensFacts
  <1>3. NextAllowed(t, start, end) = Instant(w)
    BY Released
  <1>4. PICK M : Dawn(M) /\ w = M + At(end)
    BY OpensFacts
  <1>5. t <= Instant(w)
    <2>1. ~Skipped(M + At(end)) /\ wallAt(t) < M + At(end)
      BY <1>2, <1>4
    <2>2. t <= Instant(M + At(end))
      BY <1>1, <1>4, <2>1, NotBefore
    <2> QED
      BY <1>4, <2>2
  <1>6. /\ Instant(w) \in Int /\ Instant(w) <= w - Winter /\ wallAt(Instant(w)) = w
        /\ FirstAt(w) = Instant(w) /\ \A u \in Int : u < FirstAt(w) => wallAt(u) < w
    BY <1>2, Found DEF FirstAt
  <1>7. Instant(w) <= t + 2 * Day
    <2>1. wallAt(t) \in Int /\ wallAt(t) <= t + Summer
      BY ClockFacts, DayFacts, SMT DEF wallAt, offsetAt
    <2> QED
      BY <1>2, <1>6, <2>1, ClockFacts, DayFacts, SMT
  <1>8. ASSUME NEW u \in Int, t <= u, u < Instant(w) PROVE Holds(u, start, end)
    BY <1>6, <1>8, HeldUntilOpen
  <1> QED
    BY <1>2, <1>3, <1>5, <1>6, <1>7, <1>8

\* The settings' quiet hours are the hours that hold a delivery.
LEMMA LoudOrHeld ==
  ASSUME NEW t \in Int, quietStart \in Int, quietEnd \in Int
  PROVE  Loud(t) <=> ~Holds(t, quietStart, quietEnd)
  <1> DEFINE h == HourOf(t)
             span == (quietEnd - quietStart) % 24
  <1>1. h \in 0..23
    BY TimeOfDay
  <1> HIDE DEF h
  <1>2. CASE quietStart \in 0..23 /\ quietEnd \in 0..23
    <2>1. QuietHours = {(quietStart + k) % 24 : k \in 0..(span - 1)}
      BY <1>2 DEF QuietHours, ValidHour
    <2>2. ASSUME NEW k \in 0..(span - 1), h = (quietStart + k) % 24
          PROVE  quietStart # quietEnd /\ Quiet(h, quietStart, quietEnd)
      BY <1>1, <1>2, <2>2, SMT DEF Quiet
    <2>3. ASSUME quietStart # quietEnd, Quiet(h, quietStart, quietEnd)
          PROVE  /\ (h - quietStart) % 24 \in 0..(span - 1)
                 /\ h = (quietStart + ((h - quietStart) % 24)) % 24
      BY <1>1, <1>2, <2>3, SMT DEF Quiet
    <2>4. h \in QuietHours <=> quietStart # quietEnd /\ Quiet(h, quietStart, quietEnd)
      BY <2>1, <2>2, <2>3
    <2> QED
      BY <1>2, <2>4 DEF Loud, Holds, h
  <1>3. CASE ~(quietStart \in 0..23 /\ quietEnd \in 0..23)
    BY <1>3 DEF Loud, Holds, QuietHours, ValidHour
  <1> QED
    BY <1>2, <1>3

\* The least element of a set.
LEMMA LeastIs ==
  ASSUME NEW S \in SUBSET Int, NEW x \in S, \A y \in S : x <= y
  PROVE  Min(S) = x
  <1>1. \E z \in S : \A y \in S : z <= y
    OBVIOUS
  <1>2. Min(S) \in S /\ \A y \in S : Min(S) <= y
    BY <1>1 DEF Min
  <1>3. x <= Min(S) /\ Min(S) <= x /\ x \in Int /\ Min(S) \in Int
    BY <1>2
  <1> QED
    BY <1>3, SMT

\* NextAllowed is the first instant that the quiet hours leave free.
LEMMA DueAtOnce ==
  ASSUME NEW t \in Int, quietStart \in Int, quietEnd \in Int,
         Loud(t) \/ ~NoSuchHour(t)
  PROVE  NextAllowed(t, quietStart, quietEnd) = Min({u \in t..(t + 2 * Day) : Loud(u)})
  <1> DEFINE r == NextAllowed(t, quietStart, quietEnd)
             S == {u \in t..(t + 2 * Day) : Loud(u)}
  <1>1. /\ r \in Int /\ t <= r /\ r <= t + 2 * Day /\ Loud(r)
        /\ \A u \in Int : t <= u /\ u < r => ~Loud(u)
    <2>1. CASE Loud(t)
      <3>1. r = t
        BY <2>1, LoudOrHeld, NotHeld
      <3> QED
        BY <2>1, <3>1, DayFacts, SMT
    <2>2. CASE ~Loud(t)
      <3>1. Holds(t, quietStart, quietEnd)
        BY <2>2, LoudOrHeld
      <3>2. /\ ~Skipped(Midnight(t) + At(quietEnd))
            /\ HourOf(t) >= quietEnd => ~Skipped(Midnight(t) + At(quietEnd) + Day)
        BY <2>2 DEF NoSuchHour, At
      <3>3. ~Skipped(Opens(t, quietEnd)) /\ (HourOf(t) >= quietEnd => ~Skipped(Opens(t, quietEnd) - Day))
        <4>1. Midnight(t) \in Int /\ Day \in Int /\ At(quietEnd) \in Int
          BY TimeTypes, DayFacts, WholeHours
        <4>2. Opens(t, quietEnd) = IF HourOf(t) >= quietEnd THEN Midnight(t) + At(quietEnd) + Day
                                   ELSE Midnight(t) + At(quietEnd)
          BY <4>1, SMT DEF Opens
        <4>3. (Midnight(t) + At(quietEnd) + Day) - Day = Midnight(t) + At(quietEnd)
          BY <4>1, SMT
        <4> QED
          BY <3>2, <4>2, <4>3
      <3>4. /\ r \in Int /\ t <= r /\ r <= t + 2 * Day /\ ~Holds(r, quietStart, quietEnd)
            /\ \A u \in Int : t <= u /\ u < r => Holds(u, quietStart, quietEnd)
        BY <3>1, <3>3, FirstFree
      <3> QED
        BY <3>4, LoudOrHeld
    <2> QED
      BY <2>1, <2>2
  <1> HIDE DEF r
  <1>2. S \in SUBSET Int /\ r \in S /\ \A y \in S : r <= y
    BY <1>1, DayFacts, SMT
  <1> QED
    BY <1>2, LeastIs DEF r

-----------------------------------------------------------------------------
(* The loop of Fanout.                                                     *)

\* The inductive invariant: every delivery's moment, and what became of it.
ScheduleInv ==
  /\ now \in Int /\ quietStart \in Int /\ quietEnd \in Int
  /\ asked \in Seq(Int) /\ processAt \in Seq(Int) /\ Len(asked) = Len(processAt)
  /\ \A n \in DOMAIN processAt :
       /\ \E stagger \in Staggers(n - 1) : asked[n] = now + stagger
       /\ processAt[n] = NextAllowed(asked[n], quietStart, quietEnd)

\* It is an instant.
LEMMA AllowedIsInt ==
  ASSUME NEW t \in Int, NEW start \in Int, NEW end \in Int
  PROVE  NextAllowed(t, start, end) \in Int
  <1>1. CASE Holds(t, start, end)
    <2>1. Opens(t, end) \in Int /\ Opens(t, end) - Ticks \in Int
      BY <1>1, OpensFacts, DayFacts, SMT
    <2> QED
      BY <1>1, <2>1, Released, Found
  <1>2. CASE ~Holds(t, start, end)
    BY <1>2, NotHeld
  <1> QED
    BY <1>1, <1>2

\* What Stagger may return.
LEMMA StaggersBound ==
  ASSUME NEW n \in Nat, NEW d \in Staggers(n)
  PROVE  /\ d \in Nat
         /\ Base = 0 => d = 0
         /\ Base > 0 => \E jitter \in Int :
              /\ -MaxJitter <= jitter /\ jitter < MaxJitter
              /\ d = (IF n * Base + jitter > 0 THEN n * Base + jitter ELSE 0)
  <1>1. Base \in Nat /\ MaxJitter \in Nat
    BY ScheduleAssumption
  <1>2. CASE Base = 0
    BY <1>1, <1>2, SMT DEF Staggers
  <1>3. CASE Base > 0
    <2>1. PICK jitter \in -MaxJitter..(MaxJitter - 1) : d = Max({0, n * Base + jitter})
      <3>1. ~(Base <= 0)
        BY <1>1, <1>3, SMT
      <3> QED
        BY <3>1, Zenon DEF Staggers
    <2>2. jitter \in Int /\ -MaxJitter <= jitter /\ jitter < MaxJitter /\ n * Base + jitter \in Int
      BY <1>1, SMT
    <2>3. \A x \in Int : Max({0, x}) = IF x > 0 THEN x ELSE 0
      BY SMT DEF Max
    <2> QED
      BY <1>1, <1>3, <2>1, <2>2, <2>3, SMT
  <1> QED
    BY <1>1, <1>2, <1>3, SMT

\* Every turn of the loop keeps the deliveries as they were scheduled.
LEMMA ScheduleStep ==
  ASSUME ScheduleInv, [ScheduleNext]_scheduleVars
  PROVE  ScheduleInv'
  <1> USE DEF ScheduleInv
  <1>1. CASE ScheduleNext
    <2> DEFINE k == Len(processAt)
    <2>1. PICK stagger \in Staggers(k) :
            /\ asked' = Append(asked, now + stagger)
            /\ processAt' = Append(processAt, NextAllowed(now + stagger, quietStart, quietEnd))
            /\ UNCHANGED <<now, quietStart, quietEnd>>
      BY <1>1 DEF ScheduleNext, Enqueue
    <2>2. k \in Nat
      OBVIOUS
    <2>3. stagger \in Nat
      BY <2>2, StaggersBound
    <2>4. now + stagger \in Int
      BY <2>3, SMT
    <2>5. NextAllowed(now + stagger, quietStart, quietEnd) \in Int
      BY <2>4, AllowedIsInt
    <2>6. /\ asked' \in Seq(Int) /\ processAt' \in Seq(Int)
          /\ Len(asked') = k + 1 /\ Len(processAt') = k + 1
          /\ asked'[k + 1] = now + stagger
          /\ processAt'[k + 1] = NextAllowed(now + stagger, quietStart, quietEnd)
          /\ \A n \in 1..k : asked'[n] = asked[n] /\ processAt'[n] = processAt[n]
      BY <2>1, <2>4, <2>5
    <2>7. ASSUME NEW n \in 1..(k + 1)
          PROVE  /\ \E s \in Staggers(n - 1) : asked'[n] = now + s
                 /\ processAt'[n] = NextAllowed(asked'[n], quietStart, quietEnd)
      <3>1. CASE n = k + 1
        <4>1. n - 1 = k
          BY <2>2, <3>1, SMT
        <4> QED
          BY <2>6, <3>1, <4>1
      <3>2. CASE n \in 1..k
        <4>1. n \in DOMAIN processAt
          BY <3>2
        <4> QED
          BY <2>6, <3>2, <4>1
      <3> QED
        BY <2>2, <3>1, <3>2, SMT
    <2>8. DOMAIN processAt' = 1..(k + 1)
      BY <2>6
    <2>9. \A n : Staggers(n)' = Staggers(n)
      BY DEF Staggers
    <2>10. \A t : NextAllowed(t, quietStart, quietEnd)' = NextAllowed(t, quietStart, quietEnd)
      BY <2>1
    <2> QED
      BY <2>1, <2>6, <2>7, <2>8, <2>9, <2>10
  <1>2. CASE UNCHANGED scheduleVars
    BY <1>2 DEF scheduleVars
  <1> QED
    BY <1>1, <1>2

\* Each delivery is due when NextAllowed says of the moment it asked for.
LEMMA ScheduleInvariant == ScheduleSpec => []ScheduleInv
  <1>1. ScheduleInit => ScheduleInv
    BY ScheduleAssumption DEF ScheduleInit, ScheduleInv
  <1>2. ScheduleInv /\ [ScheduleNext]_scheduleVars => ScheduleInv'
    BY ScheduleStep
  <1> QED
    BY <1>1, <1>2, PTL DEF ScheduleSpec

(***************************************************************************)
(* Every delivery is due when it was asked for, or when the quiet hours    *)
(* that hold it end, for all quiet hours (crossing midnight or not,        *)
(* disabled or out of range), every clock that changes at a whole hour and *)
(* every announcement, unless the spring skips the very hour that ends     *)
(* them: the two look-ups of NextAllowed (schedule.go) neither send at     *)
(* night nor hold a day too long.                                          *)
(***************************************************************************)
THEOREM DueWhenAllowed == ScheduleSpec => []DueAsSoonAsAllowed
  <1>1. ScheduleInv => DueAsSoonAsAllowed
    <2> SUFFICES ASSUME ScheduleInv, NEW n \in DOMAIN processAt
                 PROVE  /\ Loud(asked[n]) => processAt[n] = asked[n]
                        /\ ~Loud(asked[n]) => \/ NoSuchHour(asked[n])
                                              \/ processAt[n] \in FirstLoud(asked[n])..(FirstLoud(asked[n]) + (asked[n] - now))
      BY DEF DueAsSoonAsAllowed
    <2>1. asked[n] \in Int /\ processAt[n] \in Int /\ processAt[n] = NextAllowed(asked[n], quietStart, quietEnd)
      BY DEF ScheduleInv
    <2>2. Loud(asked[n]) \/ ~NoSuchHour(asked[n]) => processAt[n] = FirstLoud(asked[n])
      BY <2>1, DueAtOnce DEF ScheduleInv, FirstLoud
    <2>3. now \in Int /\ asked[n] - now >= 0
      <3>1. PICK s \in Staggers(n - 1) : asked[n] = now + s
        BY DEF ScheduleInv
      <3>2. n - 1 \in Nat /\ now \in Int
        BY DEF ScheduleInv
      <3>3. s \in Nat
        BY <3>1, <3>2, StaggersBound
      <3> QED
        BY <3>1, <3>2, <3>3, SMT
    <2>4. Loud(asked[n]) => processAt[n] = asked[n]
      BY <2>1, LoudOrHeld, NotHeld DEF ScheduleInv
    <2>5. ASSUME ~Loud(asked[n]), ~NoSuchHour(asked[n])
          PROVE  processAt[n] \in FirstLoud(asked[n])..(FirstLoud(asked[n]) + (asked[n] - now))
      <3>1. processAt[n] = FirstLoud(asked[n])
        BY <2>2, <2>5
      <3> HIDE DEF FirstLoud
      <3> QED
        BY <2>1, <2>3, <3>1, SMT
    <2> QED
      BY <2>4, <2>5
  <1> QED
    BY <1>1, ScheduleInvariant, PTL

\* The hour before a held delivery's opening is one that holds.
LEMMA HourBeforeHeld ==
  ASSUME NEW t \in Int, NEW start \in 0..23, NEW end \in 0..23, start # end,
         NEW M, Dawn(M), M + At(end) - Ticks <= wallAt(t), wallAt(t) < M + At(end)
  PROVE  Holds(t, start, end)
  <1>1. /\ start \in Int /\ end \in Int /\ M \in Int /\ wallAt(t) \in Int /\ Dawn(Midnight(t))
        /\ Midnight(t) \in Int /\ HourOf(t) \in Int
        /\ Ticks \in Int /\ Ticks > 0 /\ Day \in Int /\ Day = 24 * Ticks
    BY TimeTypes, DayFacts, SMT DEF Dawn
  <1>2. /\ At(end) \in Int /\ At(0) = 0 /\ At(24) = Day
        /\ At(end - 1) = At(end) - Ticks /\ At(24 - 1) = At(24) - Ticks
    BY <1>1, WholeHours
  <1>3. HourOf(t) \in 0..23
    BY TimeOfDay
  <1>4. CASE end = 0
    <2>1. M <= Midnight(t) => FALSE
      BY <1>1, <1>2, <1>4, TimeOfDay, SMT
    <2>2. Midnight(t) < M
      BY <1>1, <2>1, SMT
    <2>3. Midnight(t) + Day <= M
      BY <1>1, <2>2, Dawns
    <2>4. Midnight(t) + At(23) <= wallAt(t)
      BY <1>1, <1>2, <1>4, <2>3, SMT
    <2>5. 23 <= HourOf(t)
      BY <2>4, TimeOfDay
    <2> QED
      BY <1>1, <1>3, <1>4, <2>5, SMT DEF Holds, Quiet
  <1>5. CASE end # 0
    <2>1. 0 <= end - 1 /\ end < 24
      BY <1>5, SMT
    <2>2. At(0) <= At(end - 1) /\ At(end) + Ticks <= At(24)
      <3>1. end - 1 \in Int /\ 0 \in Int /\ 24 \in Int
        BY <1>1, SMT
      <3> QED
        BY <1>1, <2>1, <3>1, WholeHours
    <2>3. M <= wallAt(t) /\ wallAt(t) < M + Day
      BY <1>1, <1>2, <2>2, SMT
    <2>4. Midnight(t) = M
      BY <2>3, DayOf
    <2>5. M + At(end - 1) <= wallAt(t) /\ ~(M + At(end) <= wallAt(t))
      BY <1>1, <1>2, SMT
    <2>6. end - 1 \in Int
      BY <1>1, SMT
    <2>7. end - 1 <= HourOf(t) /\ ~(end <= HourOf(t))
      BY <1>1, <2>4, <2>5, <2>6, TimeOfDay
    <2> QED
      BY <1>1, <1>3, <2>7, SMT DEF Holds, Quiet
  <1> QED
    BY <1>4, <1>5

\* No later delivery that is held goes out before an earlier one that is not.
LEMMA FreeThenHeld ==
  ASSUME NEW t \in Int, NEW u \in Int, t <= u, NEW start, NEW end,
         ~Holds(t, start, end), Holds(u, start, end)
  PROVE  t <= NextAllowed(u, start, end)
  <1> DEFINE r == NextAllowed(u, start, end)
             w == Opens(u, end)
  <1>1. /\ start \in 0..23 /\ end \in 0..23 /\ start # end /\ start \in Int /\ end \in Int
    BY SMT DEF Holds
  <1>2. /\ w \in Int /\ wallAt(u) < w /\ w <= wallAt(u) + Day /\ wallAt(u) \in Int
        /\ Ticks \in Int /\ Ticks > 0 /\ Day \in Int /\ Day = 24 * Ticks
    BY OpensFacts, TimeTypes, DayFacts
  <1>3. PICK M : Dawn(M) /\ w = M + At(end)
    BY OpensFacts
  <1>4. M \in Int /\ At(end) \in Int
    BY <1>1, <1>3, WholeHours DEF Dawn
  <1>5. CASE ~Skipped(w) /\ r = Instant(w)
    <2>1. u <= Instant(w)
      BY <1>1, <1>2, <1>3, <1>5, NotBefore
    <2>2. Instant(w) \in Int
      BY <1>2, Found
    <2> QED
      BY <1>5, <2>1, <2>2, SMT
  <1>6. CASE Skipped(w) /\ r = Instant(w)
    <2>1. SUFFICES ASSUME r < t PROVE FALSE
      BY <1>2, <1>6, Found, SMT
    <2>2. /\ r \in Int /\ wallAt(r) = w - Ticks /\ r < Spring
          /\ \A v \in Int : v < Spring => wallAt(v) < w
      BY <1>2, <1>6, Found DEF FirstAt
    <2>3. u < Spring
      BY <1>2, <1>6, ClockFacts, SMT DEF Skipped, wallAt, offsetAt
    <2>4. w - Ticks <= wallAt(t)
      BY <1>2, <2>1, <2>2, <2>3, ClockFacts, SMT DEF wallAt, offsetAt
    <2>5. t < Spring
      BY <2>3, ClockFacts, SMT
    <2>6. M + At(end) - Ticks <= wallAt(t) /\ wallAt(t) < M + At(end)
      <3>1. wallAt(t) < w
        BY <2>2, <2>5
      <3> QED
        BY <1>2, <1>3, <1>4, <2>4, <3>1, SMT
    <2> QED
      BY <1>1, <1>3, <2>6, HourBeforeHeld
  <1>7. CASE HourOf(u) >= end /\ Skipped(w - Day) /\ r = Instant(w - Ticks)
    <2>1. PICK N, h : Dawn(N) /\ h \in 1..23 /\ Spring + Winter = N + At(h)
      BY ChangeOnTheHour
    <2>2. /\ N \in Int /\ At(h) \in Int /\ Ticks <= At(h) /\ At(h) + Ticks <= Day
      <3>1. h \in Int /\ 0 < h /\ h < 24 /\ 0 \in Int /\ 24 \in Int
        BY <2>1, SMT
      <3>2. /\ At(0) + Ticks <= At(h) /\ At(h) + Ticks <= At(24)
            /\ At(0) = 0 /\ At(24) = Day /\ At(h) \in Int
        BY <3>1, WholeHours
      <3> QED
        BY <1>2, <2>1, <3>2, SMT DEF Dawn
    <2>3. N + At(h) <= w - Day /\ w - Day < N + At(h) + Ticks
      BY <1>2, <1>7, <2>1, ClockFacts, SMT DEF Skipped, wallAt, offsetAt
    <2>4. w = Midnight(u) + At(end) + Day /\ Midnight(u) \in Int
      BY <1>7, TimeTypes DEF Opens
    <2>5. end # 0
      <3>1. SUFFICES ASSUME end = 0 PROVE FALSE
        OBVIOUS
      <3>2. At(end) = 0
        BY <3>1, <1>1, WholeHours
      <3>3. w - Day = Midnight(u)
        BY <1>2, <2>4, <3>2, SMT
      <3>4. N < Midnight(u) /\ Dawn(Midnight(u))
        BY <1>2, <2>2, <2>3, <2>4, <3>3, TimeTypes, SMT
      <3>5. N + Day <= Midnight(u)
        BY <2>1, <3>4, Dawns
      <3> QED
        BY <1>2, <2>2, <2>3, <2>4, <3>3, <3>5, SMT
    <2>6. end - 1 \in 0..23 /\ end - 1 \in Int /\ 0 <= end - 1 /\ 0 \in Int
      BY <1>1, <2>5, SMT
    <2>7. At(end - 1) = At(end) - Ticks /\ 0 <= At(end - 1)
      BY <1>1, <2>6, WholeHours
    <2>8. w - Ticks = M + At(end - 1)
      BY <1>2, <1>3, <1>4, <2>7, SMT
    <2>9. wallAt(u) < w - Ticks
      BY <1>2, <1>4, <2>4, <2>7, TimeOfDay, SMT
    <2>10. ~Skipped(w - Ticks)
      BY <1>2, <2>1, <2>2, <2>3, ClockFacts, SMT DEF Skipped, wallAt, offsetAt
    <2>11. u <= Instant(w - Ticks)
      BY <1>3, <2>6, <2>8, <2>9, <2>10, NotBefore
    <2>12. Instant(w - Ticks) \in Int
      BY <1>2, Found, SMT
    <2> QED
      BY <1>7, <2>11, <2>12, SMT
  <1> QED
    BY <1>5, <1>6, <1>7, Released

\* Held deliveries open in order: a day apart, or together and found alike.
LEMMA OpensInOrder ==
  ASSUME NEW t \in Int, NEW u \in Int, t <= u, NEW start, NEW end,
         Holds(t, start, end), Holds(u, start, end)
  PROVE  \/ Opens(t, end) + Day <= Opens(u, end)
         \/ /\ Opens(t, end) = Opens(u, end)
            /\ HourOf(u) >= end => NextAllowed(t, start, end) = NextAllowed(u, start, end)
  <1> DEFINE M == Midnight(t)
             N == Midnight(u)
             O == IF HourOf(t) >= end THEN M + Day ELSE M
             P == IF HourOf(u) >= end THEN N + Day ELSE N
  <1>1. /\ start \in 0..23 /\ end \in 0..23 /\ start # end /\ start \in Int /\ end \in Int
    BY SMT DEF Holds
  <1>2. /\ wallAt(t) \in Int /\ HourOf(t) \in Int /\ M \in Int /\ Dawn(M)
        /\ wallAt(u) \in Int /\ HourOf(u) \in Int /\ N \in Int /\ Dawn(N)
        /\ N <= wallAt(u) /\ wallAt(u) < N + Day
        /\ end <= HourOf(t) <=> M + At(end) <= wallAt(t)
        /\ end <= HourOf(u) <=> N + At(end) <= wallAt(u)
    BY <1>1, TimeTypes, TimeOfDay
  <1>3. /\ Day \in Int /\ Day > 0 /\ At(end) \in Int /\ 0 <= At(end) /\ At(end) < Day /\ At(0) = 0
    <2>1. 0 <= end /\ end < 24 /\ 0 \in Int /\ 24 \in Int
      BY <1>1, SMT
    <2>2. At(end) \in Int /\ At(0) <= At(end) /\ At(end) + Ticks <= At(24) /\ At(0) = 0 /\ At(24) = Day
      BY <1>1, <2>1, WholeHours
    <2> QED
      BY <2>2, DayFacts, SMT
  <1>4. /\ O \in Int /\ Dawn(O) /\ Opens(t, end) = O + At(end)
        /\ P \in Int /\ Dawn(P) /\ Opens(u, end) = P + At(end)
    <2>1. Dawn(O) /\ Dawn(P)
      BY <1>2, Dawns
    <2>2. Opens(t, end) = O + At(end)
      BY <1>1, <1>2, <1>3, SMT DEF Opens
    <2>3. Opens(u, end) = P + At(end)
      BY <1>1, <1>2, <1>3, SMT DEF Opens
    <2> QED
      BY <2>1, <2>2, <2>3 DEF Dawn
  <1>5. M <= wallAt(u)
    <2>1. 0 \in 0..23 /\ M + At(0) <= wallAt(t)
      BY <1>2, <1>3, TimeOfDay, SMT
    <2>2. M + At(0) <= wallAt(u)
      BY <2>1, NeverBackBefore
    <2> QED
      BY <1>2, <1>3, <2>2, SMT
  <1>6. end <= HourOf(t) => M + At(end) <= wallAt(u)
    BY <1>1, <1>2, NeverBackBefore
  <1>7. M <= N
    <2>1. N < M => N + Day <= M
      BY <1>2, Dawns
    <2> QED
      BY <1>2, <1>3, <1>5, <2>1, SMT
  <1>8. O <= P
    <2>1. M < N => M + Day <= N
      BY <1>2, Dawns
    <2> QED
      BY <1>1, <1>2, <1>3, <1>6, <1>7, <2>1, SMT
  <1>9. CASE O < P
    <2>1. O + Day <= P
      BY <1>4, <1>9, Dawns
    <2> QED
      BY <1>3, <1>4, <2>1, SMT
  <1>10. CASE O = P
    <2>1. ASSUME HourOf(u) >= end PROVE HourOf(t) >= end /\ M = N
      BY <1>1, <1>2, <1>3, <1>5, <1>7, <1>10, <2>1, SMT
    <2>2. ASSUME HourOf(u) >= end PROVE NextAllowed(t, start, end) = NextAllowed(u, start, end)
      BY <2>1, <2>2 DEF Holds, NextAllowed, ValidHour
    <2> QED
      BY <1>4, <1>10, <2>2
  <1> QED
    BY <1>4, <1>8, <1>9, <1>10, SMT

\* NextAllowed keeps the order of what it is asked, whatever the clock does.
LEMMA InOrder ==
  ASSUME NEW t \in Int, NEW u \in Int, t <= u, NEW start \in Int, NEW end \in Int
  PROVE  NextAllowed(t, start, end) <= NextAllowed(u, start, end)
  <1>1. CASE ~Holds(t, start, end) /\ ~Holds(u, start, end)
    BY <1>1, NotHeld
  <1>2. CASE ~Holds(t, start, end) /\ Holds(u, start, end)
    BY <1>2, NotHeld, FreeThenHeld
  <1>3. ASSUME NEW v \in Int, Holds(v, start, end)
        PROVE  /\ Opens(v, end) \in Int /\ Opens(v, end) - Ticks \in Int
               /\ Instant(Opens(v, end)) \in Int /\ Instant(Opens(v, end) - Ticks) \in Int
               /\ Instant(Opens(v, end) - Ticks) <= Instant(Opens(v, end))
    <2>1. Opens(v, end) \in Int /\ Opens(v, end) - Ticks \in Int
      BY <1>3, OpensFacts, DayFacts, SMT
    <2>2. (Opens(v, end) - Ticks) + Ticks <= Opens(v, end)
      BY <2>1, DayFacts, SMT
    <2> QED
      BY <2>1, <2>2, Found, HourApart
  <1>4. CASE Holds(t, start, end) /\ ~Holds(u, start, end)
    <2> DEFINE w == Opens(t, end)
    <2>1. w \in Int /\ Instant(w) \in Int /\ Instant(w) <= FirstAt(w) /\ FirstAt(w) \in Int
          /\ \A v \in Int : v < FirstAt(w) => wallAt(v) < w
      BY <1>3, <1>4, Found
    <2>2. ~(u < FirstAt(w))
      BY <1>4, <2>1, HeldUntilOpen
    <2>3. NextAllowed(t, start, end) = Instant(w) \/ NextAllowed(t, start, end) = Instant(w - Ticks)
      BY <1>4, Released
    <2>4. NextAllowed(u, start, end) = u
      BY <1>4, NotHeld
    <2>5. Instant(w - Ticks) \in Int /\ Instant(w - Ticks) <= Instant(w)
      BY <1>3, <1>4
    <2> QED
      BY <2>1, <2>2, <2>3, <2>4, <2>5, SMT
  <1>5. CASE Holds(t, start, end) /\ Holds(u, start, end)
    <2> DEFINE v == Opens(t, end)
               w == Opens(u, end)
               p == NextAllowed(t, start, end)
               q == NextAllowed(u, start, end)
    <2>1. /\ v \in Int /\ Instant(v) \in Int /\ Instant(v - Ticks) \in Int
          /\ Instant(v - Ticks) <= Instant(v)
          /\ w \in Int /\ Instant(w) \in Int /\ Instant(w - Ticks) \in Int
          /\ Instant(w - Ticks) <= Instant(w)
      BY <1>3, <1>5
    <2>2. p \in {Instant(v), Instant(v - Ticks)}
      BY <1>5, Released
    <2>3. \/ q = Instant(w)
          \/ HourOf(u) >= end /\ q = Instant(w - Ticks)
      BY <1>5, Released
    <2>4. \/ v + Day <= w
          \/ v = w /\ (HourOf(u) >= end => p = q)
      BY <1>5, OpensInOrder
    <2> HIDE DEF v, w, p, q
    <2>5. CASE v + Day <= w
      <3>1. w - Ticks \in Int /\ v + Ticks <= w - Ticks
        BY <2>1, <2>5, DayFacts, SMT
      <3>2. Instant(v) <= Instant(w - Ticks)
        BY <2>1, <3>1, HourApart
      <3> QED
        BY <2>1, <2>2, <2>3, <3>2, SMT DEF p, q
    <2>6. CASE v = w /\ (HourOf(u) >= end => p = q)
      <3>1. p \in Int /\ q \in Int /\ (p = q \/ p <= q)
        BY <2>1, <2>2, <2>3, <2>6, SMT
      <3> QED
        BY <3>1, SMT DEF p, q
    <2> QED
      BY <2>4, <2>5, <2>6
  <1> QED
    BY <1>1, <1>2, <1>4, <1>5

\* Two deliveries' staggers are apart by the base, less the jitter of both.
LEMMA StaggerGap ==
  ASSUME NEW m \in Nat, NEW n \in Nat, m < n, Base >= 2 * MaxJitter,
         NEW a \in Staggers(m), NEW b \in Staggers(n)
  PROVE  a \in Nat /\ b \in Nat /\ a <= b /\ b - a >= (n - m) * Base - 2 * MaxJitter
  <1>1. Base \in Nat /\ MaxJitter \in Nat /\ a \in Nat /\ b \in Nat
    BY ScheduleAssumption, StaggersBound
  <1>2. CASE Base = 0
    <2>1. a = 0 /\ b = 0 /\ (n - m) * Base = 0
      BY <1>2, StaggersBound, SMT
    <2> QED
      BY <1>1, <1>2, <2>1, SMT
  <1>3. CASE Base > 0
    <2>1. PICK i \in Int : /\ -MaxJitter <= i /\ i < MaxJitter
                           /\ a = (IF m * Base + i > 0 THEN m * Base + i ELSE 0)
      BY <1>3, StaggersBound
    <2>2. PICK j \in Int : /\ -MaxJitter <= j /\ j < MaxJitter
                           /\ b = (IF n * Base + j > 0 THEN n * Base + j ELSE 0)
      BY <1>3, StaggersBound
    <2>3. (n - m) * Base = n * Base - m * Base /\ n * Base = Base * n /\ m * Base = Base * m
      BY <1>1, SMT
    <2>4. Base * m + Base <= Base * n /\ Base * m \in Int /\ Base * n \in Int /\ Base * 0 <= Base * m
      BY <1>1, <1>3, TimesMore
    <2>5. Base * 0 = 0
      BY <1>1, SMT
    <2> QED
      BY <1>1, <2>1, <2>2, <2>3, <2>4, <2>5, SMT
  <1> QED
    BY <1>1, <1>2, <1>3, SMT

(***************************************************************************)
(* Deliveries of one announcement never overtake one another, the night of *)
(* a clock change and the skipped hour included, and those that no quiet   *)
(* hours hold are apart by the stagger of schedule.go, less both their     *)
(* jitters.                                                                *)
(***************************************************************************)
THEOREM KeptApart == ScheduleSpec => []Staggered
  <1>1. ScheduleInv => Staggered
    <2> SUFFICES ASSUME ScheduleInv, NEW m \in DOMAIN processAt, NEW n \in DOMAIN processAt,
                        m < n, Base >= 2 * MaxJitter
                 PROVE  /\ processAt[m] <= processAt[n]
                        /\ Loud(asked[m]) /\ Loud(asked[n]) =>
                             processAt[n] - processAt[m] >= (n - m) * Base - 2 * MaxJitter
      BY DEF Staggered
    <2>1. /\ now \in Int /\ quietStart \in Int /\ quietEnd \in Int
          /\ asked[m] \in Int /\ processAt[m] = NextAllowed(asked[m], quietStart, quietEnd)
          /\ asked[n] \in Int /\ processAt[n] = NextAllowed(asked[n], quietStart, quietEnd)
          /\ m - 1 \in Nat /\ n - 1 \in Nat /\ m - 1 < n - 1 /\ (n - 1) - (m - 1) = n - m
      <3>1. m \in 1..Len(processAt) /\ n \in 1..Len(processAt) /\ Len(processAt) \in Nat
        BY DEF ScheduleInv
      <3>2. asked[m] \in Int /\ asked[n] \in Int
        <4>1. asked \in Seq(Int) /\ m \in 1..Len(asked) /\ n \in 1..Len(asked)
          BY <3>1 DEF ScheduleInv
        <4> QED
          BY <4>1
      <3>3. m - 1 \in Nat /\ n - 1 \in Nat /\ m - 1 < n - 1 /\ (n - 1) - (m - 1) = n - m
        BY <3>1, SMT
      <3> QED
        BY <3>2, <3>3 DEF ScheduleInv
    <2>2. PICK a \in Staggers(m - 1) : asked[m] = now + a
      BY DEF ScheduleInv
    <2>3. PICK b \in Staggers(n - 1) : asked[n] = now + b
      BY DEF ScheduleInv
    <2>4. /\ a \in Nat /\ b \in Nat /\ a <= b
          /\ b - a >= ((n - 1) - (m - 1)) * Base - 2 * MaxJitter
      BY <2>1, StaggerGap
    <2>5. asked[m] <= asked[n] /\ asked[n] - asked[m] = b - a
      BY <2>1, <2>2, <2>3, <2>4, SMT
    <2>6. processAt[m] <= processAt[n]
      BY <2>1, <2>5, InOrder
    <2>7. ASSUME Loud(asked[m]), Loud(asked[n])
          PROVE  processAt[m] = asked[m] /\ processAt[n] = asked[n]
      BY <2>1, <2>7, LoudOrHeld, NotHeld
    <2> QED
      BY <2>1, <2>4, <2>5, <2>6, <2>7
  <1> QED
    BY <1>1, ScheduleInvariant, PTL
=============================================================================
