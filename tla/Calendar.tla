------------------------------ MODULE Calendar ------------------------------
(***************************************************************************)
(* The public calendar: the island of frontend/src/islands/calendar and    *)
(* the date arithmetic of frontend/src/lib/calendar.ts, fed by the public  *)
(* read API (backend/internal/http/public.go).  The page asks for a range  *)
(* of days when the visitor reaches it and for the seasons of the year;    *)
(* answers come back in any order while the parish goes on editing.        *)
(*                                                                         *)
(* A day is a number and day 0 a Sunday, both on the parish's clock.       *)
(***************************************************************************)
EXTENDS Integers, Sequences, FiniteSets, FiniteSetsExt, SequencesExt, Bags, Tables

CONSTANTS
  Event,       \* ids
  Opening,     \* the events that are public when the page is opened
  Slot,        \* when an event is, and what: [day, min, dur, rank, group]
  FirstOf,     \* the first day of each month, from a January on
  Season,      \* table liturgical_seasons: [color, start, end], end exclusive
  Ordinary,    \* the color of days no season covers
  Today,       \* the days a visit may fall on
  MaxMoves,    \* bound: how often the visitor changes the view
  MaxEdits     \* bound: how often the parish changes an event meanwhile

\* Whole years of months, in order; seasons do not overlap (EXCLUDE in 00001).
ASSUME CalendarAssumption ==
  /\ Opening \subseteq Event /\ MaxMoves \in Nat /\ MaxEdits \in Nat
  /\ IsFiniteSet(Opening)
  /\ \A s \in Slot : s.day \in Int /\ s.min \in Nat /\ s.dur \in Nat
  /\ FirstOf \in Seq(Int) /\ Len(FirstOf) % 12 = 1 /\ Len(FirstOf) > 12
  /\ \A m, n \in DOMAIN FirstOf : m < n => FirstOf[m] < FirstOf[n]
  /\ \A s \in Season : s.start \in Int /\ s.end \in Int
  /\ \A s, t \in Season : s # t => (s.start..(s.end - 1)) \cap (t.start..(t.end - 1)) = {}

VARIABLES
  server,      \* the public events, by id
  steady,      \* history: the events nobody edited since the page was opened
  today, view, anchor,
  fetched,     \* ranges asked for, not to be asked for again
  asked,       \* requests for events in flight
  askedYears,  \* years of the requests for seasons in flight
  events,      \* what the page holds, how often each
  seasons, of, \* what the page tints with, and the year it was asked for
  moves, edits

pageVars == <<today, view, anchor, fetched, asked, askedYears, events, seasons, of, moves>>
vars == <<server, steady, pageVars, edits>>

-----------------------------------------------------------------------------
(* Days, weeks and months.                                                 *)

Month(day) == Cardinality({m \in DOMAIN FirstOf : FirstOf[m] <= day})
Year(day) == (Month(day) - 1) \div 12
DaysOf(year) == FirstOf[12 * year + 1]..(FirstOf[12 * year + 13] - 1)
Sunday(day) == day - (day % 7)

MonthCellKeys(day) == Sunday(FirstOf[Month(day)])..(Sunday(FirstOf[Month(day)]) + 41)
WeekKeys(day) == Sunday(day)..(Sunday(day) + 6)
Keys(day, v) == IF v = "mes" THEN MonthCellKeys(day) ELSE WeekKeys(day)

\* Mutant: the end of the range is its last day.
RangeOfInclusive(keys) == [from |-> Min(keys), to |-> Min(keys) + Cardinality(keys) - 1]

\* Keys are consecutive days; the API leaves out the day a range ends on.
RangeOf(keys) == [from |-> Min(keys), to |-> Min(keys) + Cardinality(keys)]

Reachable(day) == day >= FirstOf[1] /\ day < FirstOf[Len(FirstOf) - 2]
ASSUME VisitAssumption == Today \subseteq Int /\ \A day \in Today : Reachable(day)

ShiftAnchor(day, v, dir) ==
  IF v = "semana" THEN day + 7 * dir
  ELSE IF Month(day) + dir \in DOMAIN FirstOf THEN FirstOf[Month(day) + dir] ELSE -1

-----------------------------------------------------------------------------
(* The read API.                                                           *)

Entry == [event : Event, slot : Slot]
EventsIn(range) ==
  {[event |-> e, slot |-> server[e]] :
     e \in {d \in DOMAIN server : range.from <= server[d].day /\ server[d].day < range.to}}

\* Mutant: only the seasons that begin in the year.
SeasonsBegunIn(year) == {s \in Season : s.start \in DaysOf(year)}

SeasonsForYear(year) == {s \in Season : s.start..(s.end - 1) \cap DaysOf(year) # {}}

\* The season the API colors an event of this day with: any day a view may show.
SeasonOfDay == [day \in (FirstOf[1] - 6)..(FirstOf[Len(FirstOf)] + 41) |->
  IF \E s \in Season : day \in s.start..(s.end - 1)
  THEN (CHOOSE s \in Season : day \in s.start..(s.end - 1)).color
  ELSE Ordinary]

\* A season that shows in a view of a day has a day in that day's year: of the
\* seasons seeded it is true, since the one of Christmas spans the new year.
SeasonsReachIn ==
  \A day \in FirstOf[1]..FirstOf[Len(FirstOf)], v \in {"mes", "semana"} :
    Reachable(day) => \A s \in Season :
      Keys(day, v) \cap (s.start..(s.end - 1)) # {} =>
        s.start..(s.end - 1) \cap DaysOf(Year(day)) # {}

-----------------------------------------------------------------------------
(* The page: tints and lanes.                                              *)

\* The first of the seasons, in order, that has begun and not ended by its end.
SeasonOf(day) ==
  LET covering == {s \in seasons : s.start <= day /\ day <= s.end}
  IN  IF covering = {} THEN Ordinary
      ELSE (CHOOSE s \in covering : \A t \in covering : s.start <= t.start).color

\* A block is never drawn shorter than a quarter of an hour.
Item(entry) == [event |-> entry.event, min |-> entry.slot.min, dur |-> Max({15, entry.slot.dur}),
                rank |-> entry.slot.rank, group |-> entry.slot.group]
ItemsFor(day) == {Item(x) : x \in {y \in DOMAIN events : y.slot.day = day}}
End(item) == item.min + item.dur

\* A stable sort by time; ties keep an order that the rank and the answers decide.
ByTime(items) == {s \in SetToSeqs(items) : \A i, j \in DOMAIN s : i < j => s[i].min <= s[j].min}

\* Mutant: a lane is free when its event ends by the end of the new one.
FreeLaneLate(ends, item) ==
  Min({l \in 1..(Len(ends) + 1) : l = Len(ends) + 1 \/ (l <= Len(ends) /\ ends[l] <= End(item))})

FreeLane(ends, item) ==
  Min({l \in 1..(Len(ends) + 1) : l = Len(ends) + 1 \/ (l <= Len(ends) /\ ends[l] <= item.min)})

\* One turn of the loop: a new cluster once everything before has finished.
Place(laid, item) ==
  LET flush == laid.ends # << >> /\ item.min >= Max(ToSet(laid.ends))
      ends == IF flush THEN << >> ELSE laid.ends
      cluster == IF flush THEN laid.cluster + 1 ELSE laid.cluster
      lane == FreeLane(ends, item)
  IN  [blocks |-> laid.blocks \cup {[item |-> item, lane |-> lane, cluster |-> cluster]},
       ends |-> IF lane > Len(ends) THEN Append(ends, End(item))
                ELSE [ends EXCEPT ![lane] = End(item)],
       cluster |-> cluster]

\* What the first n turns leave, for each n.
Laid(byTime) ==
  LET laid[n \in 0..Len(byTime)] ==
        IF n = 0 THEN [blocks |-> {}, ends |-> << >>, cluster |-> 1]
        ELSE Place(laid[n - 1], byTime[n])
  IN  laid

LayoutLanes(byTime) ==
  LET blocks == Laid(byTime)[Len(byTime)].blocks
  IN  {[item |-> b.item, lane |-> b.lane,
        lanes |-> Max({c.lane : c \in {x \in blocks : x.cluster = b.cluster}})] : b \in blocks}

-----------------------------------------------------------------------------
(* The visitor moves, and the effects ask for what the new view shows.     *)

\* The answer, once the server has given one, comes later.
Request(range) == [range |-> range, answered |-> FALSE, reply |-> {}]

Unasked(range) == range \notin fetched

\* Two requests for the seasons of one year bring the same: they are one here.
Show(day, v) ==
  LET range == RangeOf(Keys(day, v))
  IN  /\ moves < MaxMoves /\ moves' = moves + 1
      /\ anchor' = day /\ view' = v
      /\ asked' = IF Unasked(range) THEN asked \cup {Request(range)} ELSE asked
      /\ fetched' = fetched \cup {range}
      /\ askedYears' = IF day = anchor THEN askedYears ELSE askedYears \cup {Year(day)}
      /\ UNCHANGED <<server, steady, today, events, seasons, of, edits>>

Go(dir) ==
  /\ Reachable(ShiftAnchor(anchor, view, dir))
  /\ Show(ShiftAnchor(anchor, view, dir), view)

\* Where he is already, nothing changes and no effect runs.
GoToday == anchor # today /\ Show(today, view)
SetView(v) == v # view /\ Show(anchor, v)

CalendarInit ==
  /\ server \in [Opening -> Slot]
  /\ steady = Event
  /\ today \in Today /\ view = "mes" /\ anchor = today
  /\ fetched = {RangeOf(Keys(today, "mes"))}
  /\ asked = {Request(range) : range \in fetched} /\ askedYears = {Year(today)}
  /\ events = EmptyBag /\ seasons = {} /\ of = -1
  /\ moves = 0 /\ edits = 0

-----------------------------------------------------------------------------
(* Answers.  The server reads, and the page gets to see it later or never; *)
(* nothing in the program changes the seasons.                             *)

unread == <<server, steady, today, view, anchor, moves, edits>>

Answer(q) ==
  /\ ~q.answered
  /\ asked' = (asked \ {q}) \cup {[range |-> q.range, answered |-> TRUE, reply |-> EventsIn(q.range)]}
  /\ UNCHANGED <<unread, fetched, askedYears, events, seasons, of>>

Seen == {x.event : x \in DOMAIN events}

\* Mutant: what the page already has is added again.
ArriveEventsAgain(q) ==
  /\ q.answered
  /\ asked' = asked \ {q}
  /\ events' = events (+) SetToBag(q.reply)
  /\ UNCHANGED <<unread, fetched, askedYears, seasons, of>>

ArriveEvents(q) ==
  /\ q.answered
  /\ asked' = asked \ {q}
  /\ events' = events (+) SetToBag({x \in q.reply : x.event \notin Seen})
  /\ UNCHANGED <<unread, fetched, askedYears, seasons, of>>

\* A range that failed is forgotten, so that coming back to it asks again.
Fail(q) ==
  /\ asked' = asked \ {q}
  /\ fetched' = fetched \ {q.range}
  /\ UNCHANGED <<unread, askedYears, events, seasons, of>>

\* Seasons that fail to come leave the page as it is.
ArriveSeasons(year) ==
  /\ askedYears' = askedYears \ {year}
  /\ \/ seasons' = SeasonsForYear(year) /\ of' = year
     \/ UNCHANGED <<seasons, of>>
  /\ UNCHANGED <<unread, fetched, asked, events>>

\* The parish publishes, moves, cancels, hides or deletes an event.
Edit(e) ==
  /\ edits < MaxEdits /\ edits' = edits + 1
  /\ \/ \E slot \in Slot : server' = Put(server, e, slot)
     \/ e \in DOMAIN server /\ server' = Without(server, e)
  /\ steady' = steady \ {e}
  /\ UNCHANGED pageVars

Exchange ==
  \/ \E q \in asked : Answer(q) \/ ArriveEvents(q) \/ Fail(q)
  \/ \E year \in askedYears : ArriveSeasons(year)
  \/ \E e \in Event : Edit(e)

CalendarNext ==
  \/ \E dir \in {-1, 1} : Go(dir)
  \/ GoToday
  \/ \E v \in {"mes", "semana"} : SetView(v)
  \/ Exchange

CalendarSpec == CalendarInit /\ [][CalendarNext]_vars

-----------------------------------------------------------------------------
(***************************************************************************)
(* The page holds each event once, however the ranges overlap, whatever    *)
(* order they arrive in, and although the event moves from one range to    *)
(* another in between.                                                     *)
(***************************************************************************)
HeldOnce ==
  \A x, y \in DOMAIN events : /\ events[x] = 1
                              /\ x.event = y.event => x = y

(***************************************************************************)
(* Nothing is missing: once a range has been asked for and its request is  *)
(* no longer in flight, the page holds every event the API has in it, the  *)
(* last day included, but for those edited since the page was opened.      *)
(***************************************************************************)
InFlight(range) == \E q \in asked : q.range = range

NothingMissing ==
  \A e \in steady \cap DOMAIN server :
    /\ server[e].day \in Keys(anchor, view)
    /\ RangeOf(Keys(anchor, view)) \in fetched /\ ~InFlight(RangeOf(Keys(anchor, view)))
    => [event |-> e, slot |-> server[e]] \in DOMAIN events

(***************************************************************************)
(* Blocks of the week grid that overlap in time never cover each other:    *)
(* they stand in different lanes of one width.  And no block is narrower   *)
(* than it must be: its width is set by the busiest moment of its part of  *)
(* the day, which ends where a block starts after all earlier ones have    *)
(* finished ("unrelated parts of the day never share a width").            *)
(***************************************************************************)
Overlap(a, b) == a.min < End(b) /\ b.min < End(a)
Breaks(items) == {x.min : x \in {y \in items : \A z \in items : z.min < y.min => End(z) <= y.min}}
PartOfDay(items, item) ==
  {x \in items : \A b \in Breaks(items) : x.min < b <=> item.min < b}
Busiest(items) ==
  Max({Cardinality({x \in items : x.min <= y.min /\ y.min < End(x)}) : y \in items})

LanesFit ==
  \A day \in {x.slot.day : x \in DOMAIN events} : \A byTime \in ByTime(ItemsFor(day)) :
    \A a, b \in LayoutLanes(byTime) :
      /\ a.lanes = Busiest(PartOfDay(ItemsFor(day), a.item))
      /\ a # b /\ Overlap(a.item, b.item) => a.lane # b.lane /\ a.lanes = b.lanes

(***************************************************************************)
(* With the seasons of the anchor's year, every day of the view, the days  *)
(* of the neighbouring years included, is tinted as the API colors its     *)
(* events, and with those of this year the banner names the season of      *)
(* today; the day a season ends on is left out.                            *)
(***************************************************************************)
TintedOnceBegun ==
  \A day \in ((IF of = Year(anchor) THEN Keys(anchor, view) ELSE {})
              \cup (IF of = Year(today) THEN {today} ELSE {})) \ {s.end : s \in Season} :
    SeasonOf(day) = SeasonOfDay[day]

(***************************************************************************)
(* Every day of the view is tinted as the API colors its events (seasonOf: *)
(* "the same rule the API applies to event colors").                       *)
(***************************************************************************)
TintIsTheSeason ==
  of = Year(anchor) => \A day \in Keys(anchor, view) : SeasonOf(day) = SeasonOfDay[day]
=============================================================================
