------------------------------ MODULE Schedule ------------------------------
(***************************************************************************)
(* When the deliveries of one announcement are due: the loop of Fanout     *)
(* over its recipients, with the stagger and the quiet hours of            *)
(* difusion/schedule.go, on the parish's clock and across its changes.     *)
(***************************************************************************)
EXTENDS ParishClock, Sequences, FiniteSetsExt

CONSTANTS
  Ticks,      \* ticks in an hour
  MaxJitter,  \* maxJitter, in ticks
  Base,       \* STAGGER_SECONDS, in ticks
  Starts,     \* when the fanout may run
  Hours,      \* what QUIET_START and QUIET_END may hold: 0..23, or a mistake
  Recipients  \* how many recipients the announcement has

ASSUME ScheduleAssumption ==
  /\ Ticks \in Nat \ {0} /\ MaxJitter \in Nat /\ Base \in Nat
  /\ Starts \subseteq Nat /\ Hours \subseteq Int /\ Recipients \in Nat

Day == 24 * Ticks

\* The summer's hour is an hour, and comes and goes at whole hours but midnight.
ASSUME SummerAssumption ==
  /\ Summer = Winter + Ticks
  /\ \A change \in {Spring + Winter, Autumn + Summer} :
       \E h \in 1..23 : change % Day = h * Ticks

VARIABLES
  now,        \* when the handler read the clock
  quietStart, quietEnd,
  asked,      \* per recipient, now plus its stagger
  processAt   \* per recipient, when its task is due

scheduleVars == <<now, quietStart, quietEnd, asked, processAt>>

HourOf(t) == (wallAt(t) % Day) \div Ticks
Midnight(t) == wallAt(t) - (wallAt(t) % Day)

ValidHour(h) == h \in 0..23

\* What n * base and a jitter in [-maxJitter, maxJitter) may add up to.
Staggers(n) ==
  IF Base <= 0 THEN {0}
  ELSE {Max({0, n * Base + jitter}) : jitter \in -MaxJitter..(MaxJitter - 1)}

Quiet(h, start, end) == IF start > end THEN h >= start \/ h < end ELSE h >= start /\ h < end

\* Mutant: the morning after is 24 hours later, whatever the clock does at night.
NextDayInHours(t) == t + Day

\* AddDate(0, 0, 1): the same time by the clock, a day later.
NextDay(t) == Instant(wallAt(t) + Day)

\* Mutant: the morning is always today's.
NextAllowedToday(t, start, end) ==
  IF start = end \/ ~ValidHour(start) \/ ~ValidHour(end) \/ ~Quiet(HourOf(t), start, end) THEN t
  ELSE Instant(Midnight(t) + end * Ticks)

NextAllowed(t, start, end) ==
  IF start = end \/ ~ValidHour(start) \/ ~ValidHour(end) \/ ~Quiet(HourOf(t), start, end) THEN t
  ELSE LET release == Instant(Midnight(t) + end * Ticks)
       IN  IF HourOf(t) >= end THEN NextDay(release) ELSE release

ScheduleInit ==
  /\ now \in Starts /\ quietStart \in Hours /\ quietEnd \in Hours
  /\ asked = << >> /\ processAt = << >>

\* One turn of the loop: the recipient's number is its place in the list.
Enqueue ==
  \E stagger \in Staggers(Len(processAt)) :
    /\ asked' = Append(asked, now + stagger)
    /\ processAt' = Append(processAt, NextAllowed(now + stagger, quietStart, quietEnd))
    /\ UNCHANGED <<now, quietStart, quietEnd>>

ScheduleNext == Len(processAt) < Recipients /\ Enqueue
ScheduleSpec == ScheduleInit /\ [][ScheduleNext]_scheduleVars

-----------------------------------------------------------------------------
\* The quiet hours as a reader of the settings understands them: the hours of
\* the clock face from the start up to the end.
QuietHours == IF ValidHour(quietStart) /\ ValidHour(quietEnd)
              THEN {(quietStart + k) % 24 : k \in 0..(((quietEnd - quietStart) % 24) - 1)}
              ELSE {}
Loud(t) == HourOf(t) \notin QuietHours

\* The clock skips the hour that ends the quiet ones: today's, which NextAllowed
\* goes by in any case, or tomorrow's, when it is tomorrow's that t waits for.
NoSuchHour(t) ==
  \/ Skipped(Midnight(t) + quietEnd * Ticks)
  \/ HourOf(t) >= quietEnd /\ Skipped(Midnight(t) + quietEnd * Ticks + Day)

\* The first instant from t that the quiet hours leave free.
FirstLoud(t) == Min({u \in t..(t + 2 * Day) : Loud(u)})

(***************************************************************************)
(* A delivery asked for outside the quiet hours is due when it was asked   *)
(* for; one they hold is due when they end, or later by no more than its   *)
(* own stagger, on the nights the clock changes too, unless the change     *)
(* skips the very hour they end at ("Rescheduled, never dropped";          *)
(* NextAllowed).                                                           *)
(***************************************************************************)
DueAsSoonAsAllowed ==
  \A n \in DOMAIN processAt :
    LET stagger == asked[n] - now
    IN  IF Loud(asked[n]) THEN processAt[n] = asked[n]
        ELSE \/ NoSuchHour(asked[n])
             \/ processAt[n] \in FirstLoud(asked[n])..(FirstLoud(asked[n]) + stagger)

(***************************************************************************)
(* Deliveries that no quiet hours hold keep apart by the stagger, less     *)
(* twice the jitter; those that they hold at least keep their order.       *)
(***************************************************************************)
Staggered ==
  \A m, n \in DOMAIN processAt :
    m < n /\ Base >= 2 * MaxJitter =>
      /\ processAt[m] <= processAt[n]
      /\ Loud(asked[m]) /\ Loud(asked[n]) =>
           processAt[n] - processAt[m] >= (n - m) * Base - 2 * MaxJitter
=============================================================================
