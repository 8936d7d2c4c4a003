----------------------------- MODULE EventTimes -----------------------------
(***************************************************************************)
(* When an event is, through the editor's form and back                    *)
(* (frontend/src/admin/eventos/form.ts): the API keeps two instants, the   *)
(* form a wall time and a duration in minutes.                             *)
(***************************************************************************)
EXTENDS ParishClock

CONSTANTS
  Opened,     \* the events there may be, as [start, end]
  Typed,      \* wall times she may type
  Durations,  \* minutes the list of the form offers
  MaxSaves    \* bound

\* Two ticks are a minute, so that there are times with seconds.
Minute == 2
Minutes(ticks) == ticks \div Minute
Rounded(ticks) == Minutes(ticks + Minute \div 2)

\* The clock is whole minutes off.
ASSUME TimesAssumption ==
  /\ Opened \subseteq [start : Int, end : Int] /\ Typed \subseteq Int
  /\ Durations \subseteq Nat /\ MaxSaves \in Nat
  /\ Winter % Minute = 0 /\ Summer % Minute = 0

VARIABLES
  saved,      \* the event, as the API has it
  form,       \* [wall, dur], or Closed
  touched,    \* history: she has changed one of the two
  saves

timesVars == <<saved, form, touched, saves>>

Closed == [wall |-> 0, dur |-> -1]

\* The form's time field has no seconds; a span before the start is none.
fromEvent(e) ==
  LET span == Rounded(e.end - e.start)
  IN  [wall |-> Minute * Minutes(wallAt(e.start)), dur |-> IF span > 0 THEN span ELSE 0]

\* Mutant: the end is looked up by the clock, as the start is.
toInputByClock(f) == [start |-> Instant(f.wall), end |-> Instant(f.wall + Minute * f.dur)]

toInput(f) == [start |-> Instant(f.wall), end |-> Instant(f.wall) + Minute * f.dur]

TimesInit ==
  /\ saved \in Opened /\ form = Closed
  /\ touched = FALSE /\ saves = 0

Open ==
  /\ form = Closed /\ saves < MaxSaves
  /\ form' = fromEvent(saved) /\ touched' = FALSE
  /\ UNCHANGED <<saved, saves>>

\* Some pickers leave seconds in the field, and they are kept (clock).
TypeTime ==
  /\ form # Closed
  /\ \E w \in Typed : form' = [form EXCEPT !.wall = w]
  /\ touched' = TRUE /\ UNCHANGED <<saved, saves>>

PickDuration ==
  /\ form # Closed
  /\ \E min \in Durations : form' = [form EXCEPT !.dur = min]
  /\ touched' = TRUE /\ UNCHANGED <<saved, saves>>

SaveTimes ==
  /\ form # Closed
  /\ saved' = toInput(form) /\ form' = Closed
  /\ saves' = saves + 1 /\ UNCHANGED touched

TimesNext == Open \/ TypeTime \/ PickDuration \/ SaveTimes
TimesSpec == TimesInit /\ [][TimesNext]_timesVars

-----------------------------------------------------------------------------
\* An event on whole minutes, with an end that is not before its start.
Tidy(e) == /\ e.start % Minute = 0 /\ (e.end - e.start) % Minute = 0
           /\ e.start <= e.end

(***************************************************************************)
(* Opening an event and saving it as it is moves neither its start nor its *)
(* end (form.ts: "opening an event never quietly moves its end time"),     *)
(* whatever the clock does that day, except where the clock shows an hour  *)
(* for the second time, which the form cannot tell from the first.         *)
(***************************************************************************)
UntouchedStays ==
  [][form # Closed /\ ~touched /\ Tidy(saved) /\ ~Again(saved.start) => UNCHANGED saved]_timesVars

(***************************************************************************)
(* What was typed is what the editor shows of the saved event, but for the *)
(* seconds, and its duration is real time even over a clock change; only a *)
(* wall time that no clock shows comes back as another.                    *)
(***************************************************************************)
SavedAsTyped ==
  [][saves' # saves /\ ~Skipped(form.wall) =>
       fromEvent(saved') = [form EXCEPT !.wall = Minute * Minutes(@)]]_timesVars
=============================================================================
