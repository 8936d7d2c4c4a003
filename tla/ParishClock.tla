---------------------------- MODULE ParishClock -----------------------------
(***************************************************************************)
(* The parish's wall clock, which is one hour ahead for the summer, and    *)
(* the way back from a wall time to an instant: parishToISO of             *)
(* frontend/src/admin/dates.ts, and time.Date of Go (an external library   *)
(* that makes the same two lookups).  Instants and wall times are ticks    *)
(* since some midnight UTC.                                                *)
(***************************************************************************)
EXTENDS Integers

CONSTANTS
  Winter, Summer,   \* what the clock is ahead of UTC
  Spring, Autumn    \* the instants at which it changes

\* Tijuana is west of Greenwich, and its summer is longer than its clock is behind.
ASSUME ClockAssumption ==
  /\ {Winter, Summer, Spring, Autumn} \subseteq Int
  /\ Winter < Summer /\ Summer <= 0
  /\ Spring - Winter <= Autumn

offsetAt(t) == IF Spring <= t /\ t < Autumn THEN Summer ELSE Winter
wallAt(t) == t + offsetAt(t)

\* Mutant: one lookup.
InstantOnce(w) == w - offsetAt(w)

\* Corrected by the offset at the wall time taken for UTC, then by the one there.
Instant(w) == w - offsetAt(w - offsetAt(w))

\* Wall times no clock shows, and instants at which one shows a time again.
Skipped(w) == wallAt(Spring - 1) < w /\ w < wallAt(Spring)
Again(t) == Autumn <= t /\ t < Autumn + (Summer - Winter)
=============================================================================
