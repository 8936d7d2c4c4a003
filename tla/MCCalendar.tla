----------------------------- MODULE MCCalendar -----------------------------
(* The years 2026 to 2028, the seasons of migration 00002, and a few slots *)
(* where ranges overlap and blocks touch.  Day 0 is 28 December 2025.      *)
EXTENDS Calendar, TLC

Months == <<4, 35, 63, 94, 124, 155, 185, 216, 247, 277, 308, 338,
            369, 400, 428, 459, 489, 520, 550, 581, 612, 642, 673, 703,
            734, 765, 794, 825, 855, 886, 916, 947, 978, 1008, 1039, 1069, 1100>>

D(y, m, d) == Months[12 * (y - 2026) + m] + d - 1
From(start, end, color) == [start |-> start, end |-> end, color |-> color]

Seeded ==
  { From(D(2026, 1, 1), D(2026, 1, 12), "blanco_oro"), From(D(2026, 1, 12), D(2026, 2, 18), "verde"),
    From(D(2026, 2, 18), D(2026, 4, 5), "violeta"), From(D(2026, 4, 5), D(2026, 5, 25), "blanco_oro"),
    From(D(2026, 5, 25), D(2026, 11, 29), "verde"), From(D(2026, 11, 29), D(2026, 12, 13), "violeta"),
    From(D(2026, 12, 13), D(2026, 12, 14), "rosa"), From(D(2026, 12, 14), D(2026, 12, 25), "violeta"),
    From(D(2026, 12, 25), D(2027, 1, 11), "blanco_oro"), From(D(2027, 1, 11), D(2027, 2, 10), "verde"),
    From(D(2027, 2, 10), D(2027, 3, 28), "violeta"), From(D(2027, 3, 28), D(2027, 5, 17), "blanco_oro"),
    From(D(2027, 5, 17), D(2027, 11, 28), "verde"), From(D(2027, 11, 28), D(2027, 12, 12), "violeta"),
    From(D(2027, 12, 12), D(2027, 12, 13), "rosa"), From(D(2027, 12, 13), D(2027, 12, 25), "violeta"),
    From(D(2027, 12, 25), D(2028, 1, 10), "blanco_oro") }

ASSUME SeedsReachIn == SeasonsReachIn

Advent == {D(2026, 12, 16)}

At(day, min, dur, rank, group) == [day |-> day, min |-> min, dur |-> dur, rank |-> rank, group |-> group]

\* The last day of December's grid, in January's too: one block overlaps the
\* other two, which touch.
Slots == {At(D(2027, 1, 9), 600, 120, 3, "coro"), At(D(2027, 1, 9), 625, 35, 0, "liturgia"),
          At(D(2027, 1, 9), 660, 0, 2, "coro")}

Symmetry == Permutations(Opening)
=============================================================================
