--------------------------- MODULE CalendarProofs ---------------------------
(***************************************************************************)
(* What the public calendar holds and shows, for any events, edits, views  *)
(* visited, seasons and orders of the answers.                             *)
(***************************************************************************)
EXTENDS Visitor, FiniteSetTheorems, WellFoundedInduction, TLAPS

-----------------------------------------------------------------------------
(* Days, months and ranges.                                                *)

LEMMA CalendarFacts ==
  /\ FirstOf \in Seq(Int) /\ DOMAIN FirstOf = 1..Len(FirstOf) /\ Len(FirstOf) \in Nat
  /\ Len(FirstOf) % 12 = 1 /\ Len(FirstOf) > 12
  /\ \A m \in DOMAIN FirstOf : FirstOf[m] \in Int
  /\ \A m, n \in DOMAIN FirstOf : m < n => FirstOf[m] < FirstOf[n]
BY CalendarAssumption

(* The month of a day the calendar reaches is the one it falls in.         *)
LEMMA MonthOfDay ==
  ASSUME NEW day \in Int, FirstOf[1] <= day, day < FirstOf[Len(FirstOf)]
  PROVE  /\ Month(day) \in 1..(Len(FirstOf) - 1)
         /\ FirstOf[Month(day)] <= day /\ day < FirstOf[Month(day) + 1]
<1> DEFINE begun == {m \in DOMAIN FirstOf : FirstOf[m] <= day}
           n == Month(day)
<1>1. IsFiniteSet(1..Len(FirstOf)) /\ begun \subseteq 1..Len(FirstOf)
  <2>1. 1 \in Int /\ Len(FirstOf) \in Int
    BY CalendarFacts
  <2>2. IsFiniteSet(1..Len(FirstOf))
    BY <2>1, FS_Interval
  <2> QED
    BY <2>2, CalendarFacts
<1>2. IsFiniteSet(begun) /\ n \in Nat
  BY <1>1, FS_Subset, FS_CardinalityType DEF Month
<1>3. ASSUME NEW m \in begun, NEW l \in 1..m PROVE l \in begun
  <2>1. m \in DOMAIN FirstOf /\ l \in DOMAIN FirstOf /\ m \in Int /\ l \in Int /\ l <= m
    BY CalendarFacts
  <2>2. FirstOf[m] \in Int /\ FirstOf[l] \in Int /\ FirstOf[m] <= day
    BY <2>1, CalendarFacts
  <2>3. l < m => FirstOf[l] < FirstOf[m]
    BY <2>1, CalendarFacts
  <2>4. FirstOf[l] <= day
    BY <2>1, <2>2, <2>3
  <2> QED
    BY <2>1, <2>4
<1>4. ASSUME NEW m \in begun PROVE m <= n
  <2>1. 1..m \subseteq begun
    BY <1>3, <1>4
  <2>2. Cardinality(1..m) = m
    BY <1>1, <1>4, CalendarFacts, FS_Interval
  <2> QED
    BY <1>2, <2>1, <2>2, FS_Subset DEF Month
<1>5. ASSUME NEW m \in 1..Len(FirstOf), m \notin begun PROVE n < m
  <2>1. begun \subseteq 1..(m - 1)
    <3>1. ASSUME NEW l \in begun PROVE l < m
      BY <1>5, <3>1, CalendarFacts
    <3> QED
      BY <1>1, <1>5, <3>1, CalendarFacts
  <2>2. IsFiniteSet(1..(m - 1)) /\ Cardinality(1..(m - 1)) = m - 1
    <3>1. 1 \in Int /\ m \in Int /\ m - 1 \in Int /\ m >= 1
      BY <1>5, CalendarFacts
    <3>2. /\ IsFiniteSet(1..(m - 1))
          /\ Cardinality(1..(m - 1)) = IF 1 > m - 1 THEN 0 ELSE (m - 1) - 1 + 1
      BY <3>1, FS_Interval
    <3> QED
      BY <3>1, <3>2
  <2> QED
    BY <1>2, <1>5, <2>1, <2>2, FS_Subset, CalendarFacts DEF Month
<1>6. 1 \in begun /\ Len(FirstOf) \notin begun /\ Len(FirstOf) \in 1..Len(FirstOf)
  BY CalendarFacts
<1>7. n >= 1 /\ n < Len(FirstOf)
  BY <1>2, <1>4, <1>5, <1>6
<1>8. n \in begun
  BY <1>2, <1>5, <1>7, CalendarFacts
<1>9. n + 1 \notin begun
  BY <1>2, <1>4
<1> QED
  BY <1>2, <1>7, <1>8, <1>9, CalendarFacts

LEMMA WithinCalendar ==
  ASSUME NEW day \in Int, Reachable(day)
  PROVE  FirstOf[1] <= day /\ day < FirstOf[Len(FirstOf)]
<1>0. Len(FirstOf) \in Nat /\ Len(FirstOf) > 12 /\ DOMAIN FirstOf = 1..Len(FirstOf)
  BY CalendarFacts
<1>1. Len(FirstOf) \in DOMAIN FirstOf /\ Len(FirstOf) - 2 \in DOMAIN FirstOf /\ Len(FirstOf) - 2 < Len(FirstOf)
  BY <1>0
<1>2. FirstOf[Len(FirstOf) - 2] < FirstOf[Len(FirstOf)]
  BY <1>1, CalendarFacts
<1>3. FirstOf[Len(FirstOf) - 2] \in Int /\ FirstOf[Len(FirstOf)] \in Int
  BY <1>1, CalendarFacts
<1> QED
  BY <1>2, <1>3 DEF Reachable

(* The days of a view are six weeks or one, from a Sunday on.              *)
LEMMA ViewDays ==
  ASSUME NEW day \in Int, Reachable(day), NEW v
  PROVE  \E a \in Int, n \in Nat : Keys(day, v) = a..(a + n)
<1>1. FirstOf[1] <= day /\ day < FirstOf[Len(FirstOf)]
  BY WithinCalendar
<1>2. FirstOf[Month(day)] \in Int
  <2>1. Month(day) \in 1..(Len(FirstOf) - 1)
    BY <1>1, MonthOfDay
  <2>2. Month(day) \in DOMAIN FirstOf
    BY <2>1, CalendarFacts
  <2> QED
    BY <2>2, CalendarFacts
<1>3. \A d \in Int : Sunday(d) \in Int
  BY DEF Sunday
<1> QED
  BY <1>2, <1>3 DEF Keys, MonthCellKeys, WeekKeys

(* A range asked for covers the days of its view, the last one included.   *)
LEMMA RangeCovers ==
  ASSUME NEW day \in Int, Reachable(day), NEW v, NEW d \in Keys(day, v)
  PROVE  RangeOf(Keys(day, v)).from <= d /\ d < RangeOf(Keys(day, v)).to
<1>1. PICK a \in Int, n \in Nat : Keys(day, v) = a..(a + n)
  BY ViewDays
<1>2. Min(a..(a + n)) = a
  <2>1. a \in a..(a + n) /\ \A x \in a..(a + n) : a <= x
    BY <1>1
  <2>2. \A x \in a..(a + n) : (\A y \in a..(a + n) : x <= y) => x = a
    BY <1>1
  <2> QED
    BY <2>1, <2>2 DEF Min
<1>3. Cardinality(a..(a + n)) = n + 1
  BY <1>1, FS_Interval
<1> QED
  BY <1>1, <1>2, <1>3 DEF RangeOf
-----------------------------------------------------------------------------
(* The invariant: where the visitor is, and what the page holds.           *)

\* The visitor is on a day the calendar has.
Whereabouts ==
  /\ anchor \in Int /\ Reachable(anchor)
  /\ today \in Int /\ Reachable(today)

OncePerEvent(entries) == \A x, y \in entries : x.event = y.event => x = y

\* What was read of an event nobody edited is what the server still has.
AsServed(entries) ==
  \A x \in entries : x.event \in steady =>
    x.event \in DOMAIN server /\ x = [event |-> x.event, slot |-> server[x.event]]

Replies ==
  \A q \in asked : /\ q.answered \in BOOLEAN
                   /\ OncePerEvent(q.reply) /\ AsServed(q.reply)

Held == /\ \A x \in DOMAIN events : events[x] = 1
        /\ OncePerEvent(DOMAIN events) /\ AsServed(DOMAIN events)

SteadyIn(range) == {x \in EventsIn(range) : x.event \in steady}

\* A range asked for is in flight or here, and an answer brings all of it.
Complete ==
  /\ \A q \in asked : q.answered => SteadyIn(q.range) \subseteq q.reply
  /\ \A range \in fetched : InFlight(range) \/ SteadyIn(range) \subseteq DOMAIN events

PageInv == Whereabouts /\ Replies /\ Held /\ Complete

LEMMA PageShows == ASSUME PageInv PROVE HeldOnce /\ NothingMissing
<1>1. HeldOnce
  BY DEF PageInv, Held, HeldOnce, OncePerEvent
<1>2. ASSUME NEW e \in steady \cap DOMAIN server,
             server[e].day \in Keys(anchor, view),
             RangeOf(Keys(anchor, view)) \in fetched, ~InFlight(RangeOf(Keys(anchor, view)))
      PROVE  [event |-> e, slot |-> server[e]] \in DOMAIN events
  <2>1. [event |-> e, slot |-> server[e]] \in SteadyIn(RangeOf(Keys(anchor, view)))
    <3>1. /\ RangeOf(Keys(anchor, view)).from <= server[e].day
          /\ server[e].day < RangeOf(Keys(anchor, view)).to
      BY <1>2, RangeCovers DEF PageInv, Whereabouts
    <3> QED
      BY <1>2, <3>1 DEF SteadyIn, EventsIn
  <2>2. SteadyIn(RangeOf(Keys(anchor, view))) \subseteq DOMAIN events
    BY <1>2 DEF PageInv, Complete
  <2> QED
    BY <2>1, <2>2
<1> QED
  BY <1>1, <1>2 DEF NothingMissing

LEMMA PageStarts == CalendarInit => PageInv
<1> SUFFICES ASSUME CalendarInit PROVE PageInv
  OBVIOUS
<1>1. Whereabouts
  BY VisitAssumption DEF CalendarInit, Whereabouts
<1>2. Replies
  <2>1. \A q \in asked : q.answered = FALSE /\ q.reply = {}
    BY DEF CalendarInit, Request
  <2> QED
    BY <2>1 DEF Replies, OncePerEvent, AsServed
<1>3. DOMAIN events = {}
  BY DEF CalendarInit, EmptyBag, SetToBag
<1>4. Held
  BY <1>3 DEF Held, OncePerEvent, AsServed
<1>5. Complete
  <2>1. \A q \in asked : q.answered = FALSE
    BY DEF CalendarInit, Request
  <2>2. ASSUME NEW range \in fetched PROVE InFlight(range)
    <3>1. Request(range) \in asked /\ Request(range).range = range
      BY <2>2 DEF CalendarInit, Request
    <3> QED
      BY <3>1 DEF InFlight
  <2> QED
    BY <2>1, <2>2 DEF Complete
<1> QED
  BY <1>1, <1>2, <1>4, <1>5 DEF PageInv

(* Showing another view asks for its range unless it was asked for.        *)
LEMMA ShowKeeps ==
  ASSUME PageInv, NEW day \in Int, Reachable(day), NEW v, Show(day, v)
  PROVE  PageInv'
<1>1. PICK range : range = RangeOf(Keys(day, v))
  OBVIOUS
<1>2. /\ UNCHANGED <<server, steady, today, events>> /\ anchor' = day
      /\ asked' = IF Unasked(range) THEN asked \cup {Request(range)} ELSE asked
      /\ fetched' = fetched \cup {range}
  BY <1>1 DEF Show
<1>3. Whereabouts'
  BY <1>2 DEF PageInv, Whereabouts
<1>4. Held'
  BY <1>2 DEF PageInv, Held, OncePerEvent, AsServed
<1>5. Replies'
  <2>1. ASSUME NEW q \in asked'
        PROVE  q \in asked \/ (q.answered = FALSE /\ q.reply = {})
    BY <1>2, <2>1 DEF Request
  <2> QED
    BY <1>2, <2>1 DEF PageInv, Replies, OncePerEvent, AsServed
<1>6. Complete'
  <2>1. ASSUME NEW q \in asked', q.answered PROVE (SteadyIn(q.range) \subseteq q.reply)'
    BY <1>2, <2>1 DEF PageInv, Complete, Request, SteadyIn, EventsIn
  <2>2. ASSUME NEW other \in fetched PROVE (InFlight(other) \/ SteadyIn(other) \subseteq DOMAIN events)'
    BY <1>2, <2>2 DEF PageInv, Complete, SteadyIn, EventsIn, InFlight
  <2>3. range \in fetched \/ InFlight(range)'
    <3>1. CASE Unasked(range)
      <4>1. Request(range) \in asked' /\ Request(range).range = range
        BY <1>2, <3>1 DEF Request
      <4> QED
        BY <4>1 DEF InFlight
    <3> QED
      BY <3>1 DEF Unasked
  <2> QED
    BY <1>2, <2>1, <2>2, <2>3 DEF Complete
<1> QED
  BY <1>3, <1>4, <1>5, <1>6 DEF PageInv
(* The server reads: an answer holds each event once, as it is.            *)
LEMMA AnswerKeeps ==
  ASSUME PageInv, NEW q \in asked, Answer(q)
  PROVE  PageInv'
<1> DEFINE p == [range |-> q.range, answered |-> TRUE, reply |-> EventsIn(q.range)]
<1>1. /\ UNCHANGED <<server, steady, today, anchor, events, fetched>>
      /\ asked' = (asked \ {q}) \cup {p}
      /\ p.range = q.range /\ p.answered = TRUE /\ p.reply = EventsIn(q.range)
  BY DEF Answer, unread
<1>2. Whereabouts' /\ Held'
  BY <1>1 DEF PageInv, Whereabouts, Held, OncePerEvent, AsServed
<1>3. OncePerEvent(p.reply) /\ AsServed(p.reply)
  BY <1>1 DEF OncePerEvent, AsServed, EventsIn
<1> HIDE DEF p
<1>4. Replies'
  <2>1. ASSUME NEW x \in asked' PROVE x \in asked \/ x = p
    BY <1>1, <2>1
  <2> QED
    BY <1>1, <1>3, <2>1 DEF PageInv, Replies, OncePerEvent, AsServed
<1>5. Complete'
  <2>1. \A range : SteadyIn(range)' = SteadyIn(range)
    BY <1>1 DEF SteadyIn, EventsIn
  <2>2. ASSUME NEW x \in asked', x.answered PROVE SteadyIn(x.range) \subseteq x.reply
    BY <1>1, <2>2 DEF PageInv, Complete, SteadyIn
  <2>3. ASSUME NEW range, InFlight(range) PROVE InFlight(range)'
    BY <1>1, <2>3 DEF InFlight
  <2> QED
    BY <1>1, <2>1, <2>2, <2>3 DEF PageInv, Complete
<1> QED
  BY <1>2, <1>4, <1>5 DEF PageInv

(* An answer adds the events the page has not, so none is there twice; one *)
(* that it has, and nobody edited, it has as the answer has it.            *)
LEMMA ArriveKeeps ==
  ASSUME PageInv, NEW q \in asked, ArriveEvents(q)
  PROVE  PageInv'
<1> DEFINE new == {x \in q.reply : x.event \notin Seen}
<1>1. /\ UNCHANGED <<server, steady, today, anchor, fetched>> /\ q.answered
      /\ asked' = asked \ {q} /\ events' = events (+) SetToBag(new)
  BY DEF ArriveEvents, unread
<1>2. /\ OncePerEvent(q.reply) /\ AsServed(q.reply) /\ SteadyIn(q.range) \subseteq q.reply
      /\ OncePerEvent(DOMAIN events) /\ AsServed(DOMAIN events) /\ \A x \in DOMAIN events : events[x] = 1
  BY <1>1 DEF PageInv, Replies, Held, Complete
<1>3. DOMAIN events' = DOMAIN events \cup new
  BY <1>1 DEF (+), SetToBag
<1>4. \A x \in new, y \in DOMAIN events : x.event # y.event
  BY DEF Seen
<1>5. \A x \in DOMAIN events' : events'[x] = 1
  BY <1>1, <1>2, <1>3, <1>4 DEF (+), SetToBag
<1>6. OncePerEvent(DOMAIN events')
  BY <1>2, <1>3, <1>4 DEF OncePerEvent
<1>7. AsServed(DOMAIN events')
  BY <1>2, <1>3 DEF AsServed
<1>8. Whereabouts' /\ Replies'
  BY <1>1 DEF PageInv, Whereabouts, Replies, OncePerEvent, AsServed
<1>9. Held'
  BY <1>1, <1>5, <1>6, <1>7 DEF Held, OncePerEvent, AsServed
<1>10. SteadyIn(q.range) \subseteq DOMAIN events'
  <2>1. ASSUME NEW x \in SteadyIn(q.range) PROVE x \in DOMAIN events'
    <3>1. x \in q.reply /\ x.event \in steady
      BY <1>2, <2>1 DEF SteadyIn
    <3>2. CASE x.event \in Seen
      <4>1. PICK y \in DOMAIN events : y.event = x.event
        BY <3>2 DEF Seen
      <4>2. x = y
        BY <1>2, <3>1, <4>1 DEF AsServed
      <4> QED
        BY <1>3, <4>2
    <3> QED
      BY <1>3, <3>1, <3>2
  <2> QED
    BY <2>1
<1>11. Complete'
  <2>1. \A range : SteadyIn(range)' = SteadyIn(range)
    BY <1>1 DEF SteadyIn, EventsIn
  <2>2. ASSUME NEW range, InFlight(range), range # q.range PROVE InFlight(range)'
    BY <1>1, <2>2 DEF InFlight
  <2> QED
    BY <1>1, <1>3, <1>10, <2>1, <2>2 DEF PageInv, Complete
<1> QED
  BY <1>8, <1>9, <1>11 DEF PageInv

(* A range that failed may be asked for again.                             *)
LEMMA FailKeeps ==
  ASSUME PageInv, NEW q \in asked, Fail(q)
  PROVE  PageInv'
<1>1. /\ UNCHANGED <<server, steady, today, anchor, events>>
      /\ asked' = asked \ {q} /\ fetched' = fetched \ {q.range}
  BY DEF Fail, unread
<1>2. Whereabouts' /\ Held' /\ Replies'
  BY <1>1 DEF PageInv, Whereabouts, Held, Replies, OncePerEvent, AsServed
<1>3. \A range : SteadyIn(range)' = SteadyIn(range)
  BY <1>1 DEF SteadyIn, EventsIn
<1>4. ASSUME NEW range, InFlight(range), range # q.range PROVE InFlight(range)'
  BY <1>1, <1>4 DEF InFlight
<1>5. Complete'
  BY <1>1, <1>3, <1>4 DEF PageInv, Complete
<1> QED
  BY <1>2, <1>5 DEF PageInv

(* The parish edits an event, which is steady no more.                     *)
LEMMA EditKeeps ==
  ASSUME PageInv, NEW e \in Event, Edit(e)
  PROVE  PageInv'
<1>1. /\ UNCHANGED <<today, anchor, asked, fetched, events>> /\ steady' = steady \ {e}
      /\ \A d : d # e => (d \in DOMAIN server' <=> d \in DOMAIN server)
      /\ \A d \in DOMAIN server : d # e => server'[d] = server[d]
  BY DEF Edit, pageVars, Put, Without
<1>2. ASSUME NEW entries, AsServed(entries) PROVE AsServed(entries)'
  BY <1>1, <1>2 DEF AsServed
<1>3. Whereabouts'
  BY <1>1 DEF PageInv, Whereabouts
<1>4. Replies'
  BY <1>1, <1>2 DEF PageInv, Replies, OncePerEvent
<1>5. Held'
  BY <1>1, <1>2 DEF PageInv, Held, OncePerEvent
<1>6. \A range : SteadyIn(range)' \subseteq SteadyIn(range)
  BY <1>1 DEF SteadyIn, EventsIn
<1>7. \A range : InFlight(range)' <=> InFlight(range)
  BY <1>1 DEF InFlight
<1>8. Complete'
  BY <1>1, <1>6, <1>7 DEF PageInv, Complete
<1> QED
  BY <1>3, <1>4, <1>5, <1>8 DEF PageInv
LEMMA PageSteps ==
  ASSUME PageInv, [CalendarNext]_vars
  PROVE  PageInv'
<1>1. anchor \in Int /\ Reachable(anchor) /\ today \in Int /\ Reachable(today)
  BY DEF PageInv, Whereabouts
<1>2. ASSUME NEW dir \in {-1, 1}, Go(dir) PROVE PageInv'
  <2>1. ShiftAnchor(anchor, view, dir) \in Int
    BY <1>1, <1>2, CalendarFacts DEF ShiftAnchor
  <2> QED
    BY <1>2, <2>1, ShowKeeps DEF Go
<1>3. CASE GoToday
  BY <1>1, <1>3, ShowKeeps DEF GoToday
<1>4. ASSUME NEW v \in {"mes", "semana"}, SetView(v) PROVE PageInv'
  BY <1>1, <1>4, ShowKeeps DEF SetView
<1>5. ASSUME NEW q \in asked, Answer(q) \/ ArriveEvents(q) \/ Fail(q) PROVE PageInv'
  BY <1>5, AnswerKeeps, ArriveKeeps, FailKeeps
<1>6. ASSUME NEW year \in askedYears, ArriveSeasons(year) PROVE PageInv'
  BY <1>6 DEF ArriveSeasons, unread, PageInv, Whereabouts, Held, Replies, Complete, OncePerEvent,
              AsServed, SteadyIn, EventsIn, InFlight
<1>7. ASSUME NEW e \in Event, Edit(e) PROVE PageInv'
  BY <1>7, EditKeeps
<1>8. CASE UNCHANGED vars
  BY <1>8 DEF vars, pageVars, PageInv, Whereabouts, Held, Replies, Complete, OncePerEvent,
              AsServed, SteadyIn, EventsIn, InFlight
<1> QED
  BY <1>2, <1>3, <1>4, <1>5, <1>6, <1>7, <1>8 DEF CalendarNext, Exchange

LEMMA PageInvariant == CalendarSpec => []PageInv
<1>1. PageInv /\ [CalendarNext]_vars => PageInv'
  BY PageSteps
<1> QED
  BY PageStarts, <1>1, PTL DEF CalendarSpec

(***************************************************************************)
(* The page holds each event once, however the ranges overlap, in whatever *)
(* order their answers arrive, and although events move from one range to  *)
(* another in between (Calendar.tsx, the merge of the answers).            *)
(***************************************************************************)
THEOREM EachHeldOnce == CalendarSpec => []HeldOnce
<1>1. PageInv => HeldOnce
  BY PageShows
<1> QED
  BY PageInvariant, <1>1, PTL

(***************************************************************************)
(* Once the range of the view has been asked for and is not in flight, the *)
(* page holds every event the API has in the view but for those edited     *)
(* since it was opened (Calendar.tsx, fetched; rangeOf and ListEvents).    *)
(***************************************************************************)
THEOREM NothingIsMissing == CalendarSpec => []NothingMissing
<1>1. PageInv => NothingMissing
  BY PageShows
<1> QED
  BY PageInvariant, <1>1, PTL

-----------------------------------------------------------------------------
(* Tints.                                                                  *)

\* The page tints with the seasons of the year it says it has.
TintInv == Whereabouts /\ (of = -1 \/ seasons = SeasonsForYear(of))

LEMMA YearIsNoBlank ==
  ASSUME NEW day \in Int, Reachable(day)
  PROVE  Year(day) # -1
<1>1. Month(day) \in 1..(Len(FirstOf) - 1)
  BY WithinCalendar, MonthOfDay
<1>2. Month(day) - 1 \in Nat
  BY <1>1, CalendarFacts
<1>3. (Month(day) - 1) \div 12 >= 0
  BY <1>2
<1> QED
  BY <1>3 DEF Year

(* A day a view shows is one the API has a color for.                      *)
LEMMA ViewColored ==
  ASSUME NEW day \in Int, Reachable(day), NEW v, NEW d \in Keys(day, v)
  PROVE  /\ d \in Int
         /\ SeasonOfDay[d] = IF \E s \in Season : d \in s.start..(s.end - 1)
                             THEN (CHOOSE s \in Season : d \in s.start..(s.end - 1)).color
                             ELSE Ordinary
<1> DEFINE m == FirstOf[Month(day)]
           l == FirstOf[Len(FirstOf)]
<1>1. FirstOf[1] <= day /\ day < l
  BY WithinCalendar
<1>2. Month(day) \in 1..(Len(FirstOf) - 1) /\ m <= day
  BY <1>1, MonthOfDay
<1>3. /\ Month(day) \in DOMAIN FirstOf /\ 1 \in DOMAIN FirstOf /\ Len(FirstOf) \in DOMAIN FirstOf
      /\ Month(day) = 1 \/ 1 < Month(day)
  BY <1>2, CalendarFacts
<1>4. m \in Int /\ FirstOf[1] \in Int /\ l \in Int
  BY <1>3, CalendarFacts
<1>5. FirstOf[1] <= m
  BY <1>3, <1>4, CalendarFacts
<1> HIDE DEF m, l
<1>6. \A x \in Int : Sunday(x) \in Int /\ x - 6 <= Sunday(x) /\ Sunday(x) <= x
  BY DEF Sunday
<1>7. d \in Sunday(m)..(Sunday(m) + 41) \/ d \in Sunday(day)..(Sunday(day) + 6)
  BY DEF Keys, MonthCellKeys, WeekKeys, m
<1>8. d \in (FirstOf[1] - 6)..(l + 41)
  <2>1. CASE d \in Sunday(m)..(Sunday(m) + 41)
    <3>1. PICK a \in Int : a = Sunday(m) /\ m - 6 <= a /\ a <= m
      BY <1>4, <1>6
    <3> QED
      BY <1>1, <1>2, <1>4, <1>5, <2>1, <3>1
  <2>2. CASE d \in Sunday(day)..(Sunday(day) + 6)
    <3>1. PICK a \in Int : a = Sunday(day) /\ day - 6 <= a /\ a <= day
      BY <1>6
    <3> QED
      BY <1>1, <1>4, <2>2, <3>1
  <2> QED
    BY <1>7, <2>1, <2>2
<1>9. d \in Int
  BY <1>4, <1>8
<1>10. d \in (FirstOf[1] - 6)..(FirstOf[Len(FirstOf)] + 41)
  BY <1>8 DEF l
<1> QED
  BY <1>9, <1>10 DEF SeasonOfDay

(* With the seasons of the day's year, a day of its view on which no       *)
(* season ends is covered by the one season the API finds, or by none.     *)
LEMMA TintedRight ==
  ASSUME SeasonsReachIn, NEW day \in Int, Reachable(day), NEW v \in {"mes", "semana"},
         NEW d \in Keys(day, v), \A s \in Season : d # s.end,
         seasons = SeasonsForYear(Year(day))
  PROVE  SeasonOf(d) = SeasonOfDay[d]
<1> DEFINE covering == {s \in seasons : s.start <= d /\ d <= s.end}
<1>1. /\ d \in Int
      /\ SeasonOfDay[d] = IF \E s \in Season : d \in s.start..(s.end - 1)
                          THEN (CHOOSE s \in Season : d \in s.start..(s.end - 1)).color
                          ELSE Ordinary
  BY ViewColored
<1>2. \A s \in Season : s.start \in Int /\ s.end \in Int
  BY CalendarAssumption
<1>3. seasons \subseteq Season
  BY DEF SeasonsForYear
<1>4. \A s \in covering : d \in s.start..(s.end - 1)
  BY <1>1, <1>2, <1>3
<1>5. ASSUME NEW s \in Season, d \in s.start..(s.end - 1) PROVE covering = {s}
  <2>1. day \in FirstOf[1]..FirstOf[Len(FirstOf)]
    BY WithinCalendar, CalendarFacts
  <2>2. s \in SeasonsForYear(Year(day))
    BY <1>5, <2>1 DEF SeasonsReachIn, SeasonsForYear
  <2>3. s \in covering
    BY <1>1, <1>2, <1>5, <2>2
  <2>4. \A t \in covering : t = s
    BY <1>3, <1>4, <1>5, CalendarAssumption
  <2> QED
    BY <2>3, <2>4
<1>6. CASE \E s \in Season : d \in s.start..(s.end - 1)
  <2>1. PICK s : s = CHOOSE x \in Season : d \in x.start..(x.end - 1)
    OBVIOUS
  <2>2. s \in Season /\ d \in s.start..(s.end - 1)
    BY <1>6, <2>1
  <2>3. covering = {s}
    BY <1>5, <2>2
  <2>4. SeasonOf(d) = s.color
    BY <1>2, <2>2, <2>3 DEF SeasonOf
  <2> QED
    BY <1>1, <1>6, <2>1, <2>4
<1>7. CASE ~\E s \in Season : d \in s.start..(s.end - 1)
  <2>1. covering = {}
    BY <1>3, <1>4, <1>7
  <2> QED
    BY <1>1, <1>7, <2>1 DEF SeasonOf
<1> QED
  BY <1>6, <1>7
LEMMA TintSteps ==
  ASSUME TintInv, PageInv, [CalendarNext]_vars
  PROVE  TintInv'
<1>1. Whereabouts'
  BY PageSteps DEF PageInv
<1>2. ASSUME NEW year \in askedYears, ArriveSeasons(year) PROVE (of = -1 \/ seasons = SeasonsForYear(of))'
  BY <1>2 DEF ArriveSeasons, TintInv, SeasonsForYear
<1>3. CASE UNCHANGED <<seasons, of>>
  BY <1>1, <1>3 DEF TintInv, SeasonsForYear
<1>4. (\E year \in askedYears : ArriveSeasons(year)) \/ UNCHANGED <<seasons, of>>
  BY DEF CalendarNext, Exchange, Go, GoToday, SetView, Show, Answer, ArriveEvents, Fail, Edit,
         pageVars, vars
<1> QED
  BY <1>1, <1>2, <1>3, <1>4 DEF TintInv

LEMMA TintShows ==
  ASSUME SeasonsReachIn, TintInv, view \in {"mes", "semana"}
  PROVE  TintedOnceBegun
<1> SUFFICES ASSUME NEW day,
                    \/ of = Year(anchor) /\ day \in Keys(anchor, view)
                    \/ of = Year(today) /\ day = today,
                    \A s \in Season : day # s.end
             PROVE  SeasonOf(day) = SeasonOfDay[day]
  BY DEF TintedOnceBegun
<1>1. anchor \in Int /\ Reachable(anchor) /\ today \in Int /\ Reachable(today)
  BY DEF TintInv, Whereabouts
<1>2. CASE of = Year(anchor) /\ day \in Keys(anchor, view)
  <2>1. seasons = SeasonsForYear(Year(anchor))
    BY <1>1, <1>2, YearIsNoBlank DEF TintInv
  <2> QED
    BY <1>1, <1>2, <2>1, TintedRight
<1>3. CASE of = Year(today) /\ day = today
  <2>1. seasons = SeasonsForYear(Year(today))
    BY <1>1, <1>3, YearIsNoBlank DEF TintInv
  <2>2. today \in Keys(today, "semana")
    BY <1>1 DEF Keys, WeekKeys, Sunday
  <2> QED
    BY <1>1, <1>3, <2>1, <2>2, TintedRight
<1> QED
  BY <1>2, <1>3

(***************************************************************************)
(* With seasons that do not overlap and that reach into the year of every  *)
(* view they show in, the page tints each day as the API colors its        *)
(* events, the day a season ends on left out, in whatever order the        *)
(* seasons of the years arrive (calendar.ts, seasonOf; seasons.go).        *)
(***************************************************************************)
THEOREM TintedRightly == SeasonsReachIn => (CalendarSpec => []TintedOnceBegun)
<1> SUFFICES ASSUME SeasonsReachIn PROVE CalendarSpec => []TintedOnceBegun
  OBVIOUS
<1> DEFINE Inv == TintInv /\ view \in {"mes", "semana"}
<1>1. CalendarInit => Inv
  BY PageStarts DEF CalendarInit, TintInv, PageInv
<1>2. Inv /\ PageInv /\ [CalendarNext]_vars => Inv'
  <2>1. view \in {"mes", "semana"} /\ [CalendarNext]_vars => view' \in {"mes", "semana"}
    BY DEF CalendarNext, Exchange, Go, GoToday, SetView, Show, Answer, ArriveEvents, Fail, ArriveSeasons,
           Edit, unread, pageVars, vars
  <2> QED
    BY <2>1, TintSteps
<1>3. Inv => TintedOnceBegun
  BY TintShows
<1> QED
  BY <1>1, <1>2, <1>3, PageInvariant, PTL DEF CalendarSpec

-----------------------------------------------------------------------------
(***************************************************************************)
(* What the visitor picks, opens, filters or turns only looks: but for     *)
(* what it is seen through, every step of his is one of the calendar's or  *)
(* leaves it as it is (Calendar.tsx).                                      *)
(***************************************************************************)
THEOREM VisitorOnlyLooks == CalendarInit /\ [][VisitorNext]_visitorVars => CalendarSpec
<1>1. VisitorNext => CalendarNext \/ UNCHANGED vars
  <2>1. OpenFromAgenda => CalendarNext
    BY DEF OpenFromAgenda, CalendarNext, SetView
  <2> QED
    BY <2>1 DEF VisitorNext, VisitGo, VisitToday, VisitView, PickCell, PickWeekday, OpenSheet, CloseSheet,
                StayToday, StayInMonth, ToggleFilter, Resize, ArriveGroups, OnScreen, CalendarNext
<1>2. UNCHANGED visitorVars => UNCHANGED vars
  BY DEF visitorVars
<1>3. [VisitorNext]_visitorVars => [CalendarNext]_vars
  BY <1>1, <1>2
<1> QED
  BY <1>3, PTL DEF CalendarSpec

-----------------------------------------------------------------------------
(* Naturals.  Induction takes the least of the naturals at which a thing   *)
(* would fail.                                                             *)

(* A set of naturals has a least element.                                  *)
LEMMA LeastNat ==
  ASSUME NEW T \in SUBSET Nat, T # {}
  PROVE  /\ \E x \in T : \A y \in T : x <= y
         /\ Min(T) \in T /\ \A y \in T : Min(T) <= y
<1> DEFINE R == OpToRel(<, Nat)
<1>1. IsWellFoundedOn(R, Nat)
  BY NatLessThanWellFounded, Zenon
<1>2. \A x, y \in Nat : <<y, x>> \in R <=> y < x
  BY SMT DEF OpToRel
<1> HIDE DEF R
<1>3. \E x \in T : \A y \in T : ~(<<y, x>> \in R)
  BY <1>1, WFMin
<1>4. \E x \in T : \A y \in T : x <= y
  <2>1. PICK x \in T : \A y \in T : ~(<<y, x>> \in R)
    BY <1>3
  <2>2. ASSUME NEW y \in T PROVE x <= y
    <3>1. x \in Nat /\ y \in Nat /\ ~(y < x)
      BY <1>2, <2>1
    <3> QED
      BY <3>1
  <2> QED
    BY <2>2
<1> QED
  BY <1>4 DEF Min

(* A bounded set of naturals has a greatest element.                       *)
LEMMA GreatestNat ==
  ASSUME NEW T \in SUBSET Nat, T # {}, NEW n \in Nat, \A x \in T : x <= n
  PROVE  Max(T) \in T /\ \A y \in T : y <= Max(T)
<1> DEFINE bounds == {b \in Nat : \A x \in T : x <= b}
<1>1. bounds \in SUBSET Nat /\ bounds # {}
  OBVIOUS
<1>2. PICK b \in bounds : \A c \in bounds : b <= c
  BY <1>1, LeastNat
<1>3. b \in Nat /\ \A x \in T : x \in Nat /\ x <= b
  BY <1>2
<1>4. b \in T
  <2> SUFFICES ASSUME b \notin T PROVE FALSE
    OBVIOUS
  <2>1. \A x \in T : x < b
    BY <1>3
  <2>2. b >= 1
    <3>1. PICK x : x \in T
      OBVIOUS
    <3>2. x \in Nat /\ x < b
      BY <2>1, <3>1
    <3> QED
      BY <1>3, <3>2
  <2>3. b - 1 \in Nat /\ \A x \in T : x <= b - 1
    BY <1>3, <2>1, <2>2
  <2>4. b <= b - 1
    BY <1>2, <2>3
  <2> QED
    BY <1>3, <2>4
<1>5. \E x \in T : \A y \in T : x >= y
  BY <1>3, <1>4
<1>6. Max(T) \in T /\ \A y \in T : Max(T) >= y
  BY <1>5 DEF Max
<1> QED
  BY <1>3, <1>6

(* The greatest of a set, where one is known to be.                        *)
LEMMA MaxIs ==
  ASSUME NEW T \in SUBSET Nat, NEW m \in T, \A x \in T : x <= m
  PROVE  Max(T) = m
<1>1. Max(T) \in T /\ \A x \in T : Max(T) >= x
  <2>1. \E x \in T : \A y \in T : x >= y
    OBVIOUS
  <2> QED
    BY <2>1 DEF Max
<1>2. Max(T) \in Nat /\ m \in Nat /\ Max(T) >= m /\ Max(T) <= m
  BY <1>1
<1> QED
  BY <1>2
-----------------------------------------------------------------------------
(* Lanes.                                                                  *)

NoBlocks == [blocks |-> {}, ends |-> << >>, cluster |-> 1]

\* A function that lays out the first k of the blocks of s as Place does.
LaysOut(f, s, k) == f = [n \in 0..k |-> IF n = 0 THEN NoBlocks ELSE Place(f[n - 1], s[n])]

(* The walk over the blocks of a day is one: each turn adds to the last.   *)
LEMMA LaidBySteps ==
  ASSUME NEW s, Len(s) \in Nat
  PROVE  LaysOut(Laid(s), s, Len(s))
<1> DEFINE bad == {k \in Nat : ~\E f : LaysOut(f, s, k)}
<1>1. bad = {}
  <2> SUFFICES ASSUME bad # {} PROVE FALSE
    OBVIOUS
  <2>1. PICK k \in bad : \A j \in bad : k <= j
    <3>1. bad \in SUBSET Nat
      OBVIOUS
    <3> QED
      BY <3>1, LeastNat
  <2>2. k \in Nat /\ k # 0
    <3>1. LaysOut([n \in 0..0 |-> NoBlocks], s, 0)
      BY DEF LaysOut
    <3> QED
      BY <2>1, <3>1
  <2>3. k - 1 \in Nat /\ k - 1 \notin bad
    BY <2>1, <2>2
  <2>4. PICK f : LaysOut(f, s, k - 1)
    BY <2>3
  <2> DEFINE g == [n \in 0..k |-> IF n = 0 THEN NoBlocks ELSE Place(f[n - 1], s[n])]
  <2>5. \A n \in 0..(k - 1) : g[n] = f[n]
    BY <2>2, <2>4 DEF LaysOut
  <2>6. \A n \in 0..k : n # 0 => n - 1 \in 0..(k - 1)
    BY <2>2
  <2>7. \A n \in 0..k : n # 0 => g[n - 1] = f[n - 1]
    BY <2>5, <2>6
  <2>8. LaysOut(g, s, k)
    BY <2>7 DEF LaysOut
  <2> QED
    BY <2>1, <2>8
<1>2. PICK f : LaysOut(f, s, Len(s))
  BY <1>1
<1>3. Laid(s) = CHOOSE g : LaysOut(g, s, Len(s))
  BY DEF Laid, LaysOut, NoBlocks
<1> QED
  BY <1>2, <1>3

\* The events of a day: each has a start and lasts.
IsDay(items) ==
  /\ IsFiniteSet(items)
  /\ \A x \in items : x.min \in Nat /\ x.dur \in Nat /\ x.dur > 0

\* The items in some order of time, each once.
IsInTime(s, items) ==
  /\ Len(s) \in Nat /\ items = {s[i] : i \in 1..Len(s)}
  /\ \A i, j \in 1..Len(s) : i # j => s[i] # s[j]
  /\ \A i, j \in 1..Len(s) : i < j => s[i].min <= s[j].min

FirstItems(s, n) == {s[i] : i \in 1..n}
SamePart(items, x, y) == \A b \in Breaks(items) : x.min < b <=> y.min < b

\* One block for each of the items there have been.
OneEach(blocks, items) ==
  /\ \A b \in blocks : b.item \in items
  /\ \A x \in items : \E b \in blocks : b.item = x
  /\ \A b, c \in blocks : b.item = c.item => b = c

\* The end of a lane is that of the last to finish of the cluster's blocks in it.
EndsOf(blocks, ends, cluster) ==
  /\ \A l \in 1..Len(ends) : \E b \in blocks : b.cluster = cluster /\ b.lane = l /\ End(b.item) = ends[l]
  /\ \A b \in blocks : b.cluster = cluster => b.lane \in 1..Len(ends) /\ End(b.item) <= ends[b.lane]

\* No two blocks of a cluster in one lane meet.
NoneMeet(blocks) ==
  \A b, c \in blocks : b.cluster = c.cluster /\ b.lane = c.lane /\ b # c => ~Overlap(b.item, c.item)

\* A block is in its lane because at its start those before are taken.
NoGaps(blocks) ==
  \A b \in blocks : \A l \in 1..b.lane : \E c \in blocks :
    c.cluster = b.cluster /\ c.lane = l /\ c.item.min <= b.item.min /\ b.item.min < End(c.item)

\* A cluster is a part of the day.
ClustersAreParts(blocks, items) ==
  \A b, c \in blocks : b.cluster = c.cluster <=> SamePart(items, b.item, c.item)

LanesTyped(blocks, ends, cluster, n) ==
  /\ ends \in Seq(Nat) /\ Len(ends) <= n /\ cluster \in Nat
  /\ \A b \in blocks : b.lane \in 1..n /\ b.cluster \in Nat /\ b.cluster <= cluster

LanesInv(s, n, laid, items) ==
  /\ LanesTyped(laid.blocks, laid.ends, laid.cluster, n)
  /\ OneEach(laid.blocks, FirstItems(s, n))
  /\ EndsOf(laid.blocks, laid.ends, laid.cluster)
  /\ \A b \in laid.blocks : \E l \in 1..Len(laid.ends) : End(b.item) <= laid.ends[l]
  /\ NoneMeet(laid.blocks) /\ NoGaps(laid.blocks) /\ ClustersAreParts(laid.blocks, items)

\* What holds of the ends and the cluster an item is about to be placed with.
Ready(blocks, ends, cluster, n, x, items) ==
  /\ LanesTyped(blocks, ends, cluster, n)
  /\ EndsOf(blocks, ends, cluster)
  /\ \A b \in blocks : End(b.item) <= x.min \/ \E l \in 1..Len(ends) : End(b.item) <= ends[l]
  /\ \A b \in blocks : b.cluster = cluster <=> SamePart(items, b.item, x)

(* The lane chosen is free, and those before it are not.                   *)
LEMMA FreeLaneIs ==
  ASSUME NEW ends \in Seq(Nat), NEW x, x.min \in Nat
  PROVE  /\ FreeLane(ends, x) \in 1..(Len(ends) + 1)
         /\ FreeLane(ends, x) <= Len(ends) => ends[FreeLane(ends, x)] <= x.min
         /\ \A l \in 1..Len(ends) : l < FreeLane(ends, x) => x.min < ends[l]
<1> DEFINE free == {l \in 1..(Len(ends) + 1) : l = Len(ends) + 1 \/ (l <= Len(ends) /\ ends[l] <= x.min)}
<1>1. Len(ends) \in Nat /\ \A l \in 1..Len(ends) : ends[l] \in Nat
  OBVIOUS
<1>2. free \in SUBSET Nat /\ Len(ends) + 1 \in free
  BY <1>1
<1>3. Min(free) \in free /\ \A l \in free : Min(free) <= l
  BY <1>2, LeastNat
<1>4. FreeLane(ends, x) = Min(free)
  BY DEF FreeLane
<1> HIDE DEF free
<1>5. PICK m : m = FreeLane(ends, x)
  OBVIOUS
<1>6. m \in free /\ \A l \in free : m <= l
  BY <1>3, <1>4, <1>5
<1>7. m \in 1..(Len(ends) + 1) /\ (m <= Len(ends) => ends[m] <= x.min)
  BY <1>1, <1>6 DEF free
<1>8. ASSUME NEW l \in 1..Len(ends), l < m PROVE x.min < ends[l]
  <2>1. l \notin free
    BY <1>1, <1>6, <1>7, <1>8
  <2>2. ~(ends[l] <= x.min)
    BY <1>1, <2>1 DEF free
  <2> QED
    BY <1>1, <2>2
<1> QED
  BY <1>5, <1>7, <1>8

(* Two items one of which starts while the other lasts are in one part.    *)
LEMMA TogetherSamePart ==
  ASSUME NEW items, IsDay(items), NEW x \in items, NEW y \in items,
         x.min <= y.min, y.min < End(x)
  PROVE  SamePart(items, x, y)
<1> SUFFICES ASSUME NEW b \in Breaks(items) PROVE x.min < b <=> y.min < b
  BY DEF SamePart
<1>1. PICK z \in items : b = z.min /\ \A w \in items : w.min < z.min => End(w) <= z.min
  BY DEF Breaks
<1>2. x.min \in Nat /\ y.min \in Nat /\ b \in Nat /\ x.dur \in Nat
  BY <1>1 DEF IsDay
<1>3. x.min < b => End(x) <= b
  BY <1>1
<1> QED
  BY <1>2, <1>3 DEF End

(* Being in one part of the day is an equivalence.                         *)
LEMMA SamePartIsEquality ==
  ASSUME NEW items, NEW x, NEW y, NEW z
  PROVE  /\ SamePart(items, x, x)
         /\ SamePart(items, x, y) => SamePart(items, y, x)
         /\ SamePart(items, x, y) /\ SamePart(items, y, z) => SamePart(items, x, z)
BY DEF SamePart

(* Finitely many naturals have a bound.                                    *)
LEMMA BoundOfMany ==
  ASSUME NEW n \in Nat, NEW f, \A l \in 1..n : f[l] \in Nat
  PROVE  \E u \in Nat : \A l \in 1..n : f[l] <= u
<1> DEFINE unbounded == {j \in 0..n : ~\E u \in Nat : \A l \in 1..j : f[l] <= u}
<1>0. n \in 0..n
  OBVIOUS
<1> SUFFICES ASSUME unbounded # {} PROVE FALSE
  BY <1>0
<1>1. PICK j \in unbounded : \A i \in unbounded : j <= i
  <2>1. unbounded \in SUBSET Nat
    OBVIOUS
  <2> QED
    BY <2>1, LeastNat
<1>2. j \in 0..n /\ j # 0
  <2>1. \A l \in 1..0 : f[l] <= 0
    OBVIOUS
  <2> QED
    BY <1>1, <2>1
<1>3. PICK u \in Nat : \A l \in 1..(j - 1) : f[l] <= u
  <2>1. j - 1 \in 0..n /\ ~(j <= j - 1)
    BY <1>2
  <2> QED
    BY <1>1, <2>1
<1>4. PICK e \in Nat : e = f[j]
  <2>1. j \in 1..n
    BY <1>2
  <2> QED
    BY <2>1
<1>5. ASSUME NEW l \in 1..j PROVE f[l] <= u + e
  <2>1. f[l] \in Nat
    BY <1>2
  <2>2. CASE l = j
    BY <1>4, <2>2
  <2>3. CASE l # j
    <3>1. f[l] <= u
      BY <1>2, <1>3, <2>3
    <3> QED
      BY <2>1, <3>1
  <2> QED
    BY <2>2, <2>3
<1>6. u + e \in Nat
  OBVIOUS
<1> QED
  BY <1>1, <1>5, <1>6

(* The last end of the lanes.                                              *)
LEMMA LastEnd ==
  ASSUME NEW ends \in Seq(Nat), ends # << >>
  PROVE  /\ \E l \in 1..Len(ends) : ends[l] = Max(ToSet(ends))
         /\ \A l \in 1..Len(ends) : ends[l] <= Max(ToSet(ends))
         /\ Max(ToSet(ends)) \in Nat
<1>1. Len(ends) \in Nat /\ DOMAIN ends = 1..Len(ends) /\ \A l \in 1..Len(ends) : ends[l] \in Nat
  OBVIOUS
<1>2. ToSet(ends) \in SUBSET Nat /\ ToSet(ends) # {}
  <2>1. 1 \in DOMAIN ends
    OBVIOUS
  <2> QED
    BY <1>1, <2>1 DEF ToSet
<1>3. PICK u \in Nat : \A x \in ToSet(ends) : x <= u
  <2>1. \E u \in Nat : \A l \in 1..Len(ends) : ends[l] <= u
    BY <1>1, BoundOfMany
  <2> QED
    BY <1>1, <2>1 DEF ToSet
<1>4. Max(ToSet(ends)) \in ToSet(ends) /\ \A y \in ToSet(ends) : y <= Max(ToSet(ends))
  BY <1>2, <1>3, GreatestNat
<1> QED
  BY <1>1, <1>2, <1>4 DEF ToSet

\* A turn of the loop, once the ends and the cluster are settled.
PlaceIn(blocks, ends, cluster, x) ==
  LET lane == FreeLane(ends, x)
  IN  [blocks |-> blocks \cup {[item |-> x, lane |-> lane, cluster |-> cluster]},
       ends |-> IF lane > Len(ends) THEN Append(ends, End(x)) ELSE [ends EXCEPT ![lane] = End(x)],
       cluster |-> cluster]

(* The n + 1st in time: it is new and starts no earlier than those before; *)
(* what starts before it is among them.                                    *)
LEMMA NextInTime ==
  ASSUME NEW items, IsDay(items), NEW s, IsInTime(s, items), NEW n \in Nat, n < Len(s)
  PROVE  /\ s[n + 1] \in items /\ s[n + 1] \notin FirstItems(s, n)
         /\ FirstItems(s, n) \subseteq items
         /\ FirstItems(s, n + 1) = FirstItems(s, n) \cup {s[n + 1]}
         /\ \A z \in FirstItems(s, n) : z.min <= s[n + 1].min
         /\ \A z \in items : z.min < s[n + 1].min => z \in FirstItems(s, n)
<1>1. /\ Len(s) \in Nat /\ n + 1 \in 1..Len(s) /\ \A i \in 1..n : i \in 1..Len(s) /\ i < n + 1
      /\ \A i \in 1..(n + 1) : i \in 1..n \/ i = n + 1
      /\ \A i \in 1..Len(s) : i \in 1..n \/ i = n + 1 \/ n + 1 < i
  BY DEF IsInTime
<1>2. s[n + 1] \in items /\ FirstItems(s, n) \subseteq items
  BY <1>1 DEF IsInTime, FirstItems
<1>3. s[n + 1] \notin FirstItems(s, n)
  BY <1>1 DEF IsInTime, FirstItems
<1>4. FirstItems(s, n + 1) = FirstItems(s, n) \cup {s[n + 1]}
  BY <1>1 DEF FirstItems
<1>5. \A z \in FirstItems(s, n) : z.min <= s[n + 1].min
  BY <1>1 DEF FirstItems, IsInTime
<1>6. ASSUME NEW z \in items, z.min < s[n + 1].min PROVE z \in FirstItems(s, n)
  <2>1. PICK i \in 1..Len(s) : z = s[i]
    BY DEF IsInTime
  <2>2. z.min \in Nat /\ s[n + 1].min \in Nat
    BY <1>2 DEF IsDay
  <2>3. ~(i = n + 1) /\ ~(n + 1 < i)
    BY <1>1, <1>6, <2>1, <2>2 DEF IsInTime
  <2> QED
    BY <1>1, <2>1, <2>3 DEF FirstItems
<1> QED
  BY <1>2, <1>3, <1>4, <1>5, <1>6

(* A new cluster begins where everything before has finished: the cluster  *)
(* an item is placed in is its part of the day.                            *)
LEMMA ReadyToPlace ==
  ASSUME NEW items, IsDay(items), NEW s, IsInTime(s, items), NEW n \in Nat, n < Len(s),
         NEW laid, LanesInv(s, n, laid, items)
  PROVE  \E ends, cluster :
           /\ Place(laid, s[n + 1]) = PlaceIn(laid.blocks, ends, cluster, s[n + 1])
           /\ Ready(laid.blocks, ends, cluster, n, s[n + 1], items)
<1> DEFINE x == s[n + 1]
           flush == laid.ends # << >> /\ x.min >= Max(ToSet(laid.ends))
           ends == IF flush THEN << >> ELSE laid.ends
           cluster == IF flush THEN laid.cluster + 1 ELSE laid.cluster
<1>1. Place(laid, x) = PlaceIn(laid.blocks, ends, cluster, x)
  BY DEF Place, PlaceIn
<1>2. /\ x \in items /\ FirstItems(s, n) \subseteq items
      /\ \A z \in FirstItems(s, n) : z.min <= x.min
      /\ \A z \in items : z.min < x.min => z \in FirstItems(s, n)
  BY NextInTime
<1> HIDE DEF x
<1>3. /\ laid.ends \in Seq(Nat) /\ laid.cluster \in Nat /\ Len(laid.ends) \in Nat
      /\ \A l \in 1..Len(laid.ends) : laid.ends[l] \in Nat
  BY DEF LanesInv, LanesTyped
<1>4. \A b \in laid.blocks : /\ b.item \in items /\ b.item \in FirstItems(s, n)
                             /\ b.item.min \in Nat /\ b.item.dur \in Nat /\ End(b.item) \in Nat
                             /\ b.item.min < End(b.item) /\ b.item.min <= x.min
  <2>1. ASSUME NEW b \in laid.blocks
        PROVE  /\ b.item \in items /\ b.item \in FirstItems(s, n)
               /\ b.item.min \in Nat /\ b.item.dur \in Nat /\ b.item.dur > 0 /\ b.item.min <= x.min
    BY <1>2 DEF LanesInv, OneEach, IsDay
  <2> QED
    BY <2>1 DEF End
<1>5. x.min \in Nat
  BY <1>2 DEF IsDay
<1>6. CASE flush
  <2>1. ends = << >> /\ cluster = laid.cluster + 1 /\ laid.ends # << >>
    BY <1>6
  <2>2. Max(ToSet(laid.ends)) <= x.min /\ Max(ToSet(laid.ends)) \in Nat
    BY <1>3, <1>5, <1>6, LastEnd
  <2>3. \A b \in laid.blocks : End(b.item) <= x.min
    <3>1. ASSUME NEW b \in laid.blocks PROVE End(b.item) <= x.min
      <4>1. PICK l \in 1..Len(laid.ends) : End(b.item) <= laid.ends[l]
        BY DEF LanesInv
      <4>2. laid.ends[l] <= Max(ToSet(laid.ends)) /\ laid.ends[l] \in Nat
        BY <1>3, <2>1, LastEnd
      <4> QED
        BY <1>4, <1>5, <2>2, <4>1, <4>2
    <3> QED
      BY <3>1
  <2>4. x.min \in Breaks(items)
    <3>1. ASSUME NEW z \in items, z.min < x.min PROVE End(z) <= x.min
      BY <1>2, <2>3, <3>1 DEF LanesInv, OneEach
    <3> QED
      BY <1>2, <3>1 DEF Breaks
  <2>5. ASSUME NEW b \in laid.blocks PROVE b.cluster # cluster /\ ~SamePart(items, b.item, x)
    <3>1. b.item.min < x.min
      BY <1>4, <1>5, <2>3
    <3>2. ~(x.min < x.min)
      BY <1>5
    <3>3. b.cluster \in Nat /\ b.cluster <= laid.cluster
      BY DEF LanesInv, LanesTyped
    <3> QED
      BY <1>3, <2>1, <2>4, <3>1, <3>2, <3>3 DEF SamePart
  <2>6. LanesTyped(laid.blocks, ends, cluster, n)
    <3>1. \A b \in laid.blocks : b.lane \in 1..n /\ b.cluster \in Nat /\ b.cluster <= laid.cluster + 1
      BY <1>3 DEF LanesInv, LanesTyped
    <3>2. << >> \in Seq(Nat) /\ Len(<< >>) <= n
      OBVIOUS
    <3> QED
      BY <1>3, <2>1, <3>1, <3>2 DEF LanesTyped
  <2>7. EndsOf(laid.blocks, ends, cluster)
    BY <2>1, <2>5 DEF EndsOf
  <2>8. Ready(laid.blocks, ends, cluster, n, x, items)
    BY <2>3, <2>5, <2>6, <2>7 DEF Ready
  <2> QED
    BY <1>1, <2>8 DEF x
<1>7. CASE ~flush
  <2>1. ends = laid.ends /\ cluster = laid.cluster
    BY <1>7
  <2>2. ASSUME NEW b \in laid.blocks PROVE b.cluster = cluster <=> SamePart(items, b.item, x)
    <3>1. laid.ends # << >>
      <4>1. PICK l \in 1..Len(laid.ends) : End(b.item) <= laid.ends[l]
        BY DEF LanesInv
      <4> QED
        BY <1>3, <4>1
    <3>2. PICK l \in 1..Len(laid.ends) : laid.ends[l] = Max(ToSet(laid.ends))
      BY <1>3, <3>1, LastEnd
    <3>3. PICK d \in laid.blocks : d.cluster = laid.cluster /\ d.lane = l /\ End(d.item) = laid.ends[l]
      BY DEF LanesInv, EndsOf
    <3>4. d.item.min <= x.min /\ x.min < End(d.item)
      <4>1. ~(x.min >= Max(ToSet(laid.ends)))
        BY <1>7, <3>1
      <4> QED
        BY <1>3, <1>4, <1>5, <3>2, <3>3, <4>1
    <3>5. SamePart(items, d.item, x)
      BY <1>2, <1>4, <3>4, TogetherSamePart
    <3>6. b.cluster = d.cluster <=> SamePart(items, b.item, d.item)
      BY DEF LanesInv, ClustersAreParts
    <3> QED
      BY <2>1, <3>3, <3>5, <3>6, SamePartIsEquality
  <2>3. Ready(laid.blocks, ends, cluster, n, x, items)
    BY <2>1, <2>2 DEF Ready, LanesInv
  <2> QED
    BY <1>1, <2>3 DEF x
<1> QED
  BY <1>6, <1>7

(* A turn of the loop keeps what is known of the lanes.                    *)
LEMMA PlaceKeeps ==
  ASSUME NEW items, IsDay(items), NEW s, IsInTime(s, items), NEW n \in Nat, n < Len(s),
         NEW laid, LanesInv(s, n, laid, items)
  PROVE  LanesInv(s, n + 1, Place(laid, s[n + 1]), items)
<1>1. PICK ends, cluster :
        /\ Place(laid, s[n + 1]) = PlaceIn(laid.blocks, ends, cluster, s[n + 1])
        /\ Ready(laid.blocks, ends, cluster, n, s[n + 1], items)
  BY ReadyToPlace
<1>2. PICK x : x = s[n + 1]
  OBVIOUS
<1>3. PICK blocks : blocks = laid.blocks
  OBVIOUS
<1>4. PICK lane : lane = FreeLane(ends, x)
  OBVIOUS
<1>5. PICK block : block = [item |-> x, lane |-> lane, cluster |-> cluster]
  OBVIOUS
<1>6. PICK now : now = IF lane > Len(ends) THEN Append(ends, End(x)) ELSE [ends EXCEPT ![lane] = End(x)]
  OBVIOUS
<1>7. PICK next : next = Place(laid, s[n + 1])
  OBVIOUS
<1>8. next.blocks = blocks \cup {block} /\ next.ends = now /\ next.cluster = cluster
  BY <1>1, <1>2, <1>3, <1>4, <1>5, <1>6, <1>7 DEF PlaceIn
<1>9. block.item = x /\ block.lane = lane /\ block.cluster = cluster
  BY <1>5
<1>10. /\ x \in items /\ x \notin FirstItems(s, n) /\ FirstItems(s, n) \subseteq items
       /\ FirstItems(s, n + 1) = FirstItems(s, n) \cup {x}
       /\ \A z \in FirstItems(s, n) : z.min <= x.min
  BY <1>2, NextInTime
<1>11. /\ x.min \in Nat /\ End(x) \in Nat /\ x.min < End(x)
       /\ ends \in Seq(Nat) /\ Len(ends) \in Nat /\ Len(ends) <= n /\ cluster \in Nat
       /\ \A l \in 1..Len(ends) : ends[l] \in Nat
  <2>1. x.min \in Nat /\ x.dur \in Nat /\ x.dur > 0
    BY <1>10 DEF IsDay
  <2>2. ends \in Seq(Nat) /\ Len(ends) <= n /\ cluster \in Nat
    BY <1>1 DEF Ready, LanesTyped
  <2> QED
    BY <2>1, <2>2 DEF End
<1>12. \A b \in blocks :
         /\ b.item \in FirstItems(s, n) /\ b.item.min \in Nat /\ b.item.dur \in Nat /\ End(b.item) \in Nat
         /\ b.item.min <= x.min
         /\ b.lane \in 1..n /\ b.cluster \in Nat /\ b.cluster <= cluster
  <2>1. \A b \in blocks : /\ b.item \in FirstItems(s, n) /\ b.item.min \in Nat /\ b.item.dur \in Nat
                          /\ b.item.min <= x.min
    BY <1>3, <1>10 DEF LanesInv, OneEach, IsDay
  <2>2. \A b \in blocks : b.lane \in 1..n /\ b.cluster \in Nat /\ b.cluster <= cluster
    BY <1>1, <1>3 DEF Ready, LanesTyped
  <2> QED
    BY <2>1, <2>2 DEF End
<1>13. /\ lane \in 1..(Len(ends) + 1)
       /\ lane <= Len(ends) => ends[lane] <= x.min
       /\ \A l \in 1..Len(ends) : l < lane => x.min < ends[l]
  BY <1>4, <1>11, FreeLaneIs
<1>14. /\ now \in Seq(Nat) /\ Len(now) <= n + 1 /\ Len(now) \in Nat
       /\ 1..Len(now) = 1..Len(ends) \cup {lane}
       /\ now[lane] = End(x) /\ \A l \in 1..Len(ends) : l # lane => now[l] = ends[l]
  <2>1. CASE lane > Len(ends)
    BY <1>6, <1>11, <1>13, <2>1
  <2>2. CASE ~(lane > Len(ends))
    BY <1>6, <1>11, <1>13, <2>2
  <2> QED
    BY <2>1, <2>2
<1>15. \A l \in 1..Len(ends) : ends[l] \in Nat /\ now[l] \in Nat /\ ends[l] <= now[l]
  <2>1. ASSUME NEW l \in 1..Len(ends) PROVE ends[l] \in Nat /\ now[l] \in Nat /\ ends[l] <= now[l]
    <3>1. CASE l = lane
      BY <1>11, <1>13, <1>14, <3>1
    <3>2. CASE l # lane
      BY <1>11, <1>14, <3>2
    <3> QED
      BY <3>1, <3>2
  <2> QED
    BY <2>1
<1>16. LanesTyped(next.blocks, next.ends, next.cluster, n + 1)
  <2>1. ASSUME NEW b \in next.blocks PROVE b.lane \in 1..(n + 1) /\ b.cluster \in Nat /\ b.cluster <= cluster
    BY <1>8, <1>9, <1>11, <1>12, <1>13
  <2> QED
    BY <1>8, <1>11, <1>14, <2>1 DEF LanesTyped
<1>17. OneEach(next.blocks, FirstItems(s, n + 1))
  BY <1>3, <1>8, <1>9, <1>10 DEF LanesInv, OneEach
<1>18. EndsOf(next.blocks, next.ends, next.cluster)
  <2>1. ASSUME NEW l \in 1..Len(now)
        PROVE  \E b \in next.blocks : b.cluster = cluster /\ b.lane = l /\ End(b.item) = now[l]
    <3>1. CASE l = lane
      BY <1>8, <1>9, <1>14, <3>1
    <3>2. CASE l # lane
      BY <1>1, <1>3, <1>8, <1>14, <3>2 DEF Ready, EndsOf
    <3> QED
      BY <3>1, <3>2
  <2>2. ASSUME NEW b \in next.blocks, b.cluster = cluster
        PROVE  b.lane \in 1..Len(now) /\ End(b.item) <= now[b.lane]
    <3>1. CASE b = block
      BY <1>9, <1>11, <1>14, <3>1
    <3>2. CASE b \in blocks
      <4>1. b.lane \in 1..Len(ends) /\ End(b.item) <= ends[b.lane]
        BY <1>1, <1>3, <2>2, <3>2 DEF Ready, EndsOf
      <4>2. End(b.item) \in Nat /\ ends[b.lane] \in Nat /\ now[b.lane] \in Nat /\ ends[b.lane] <= now[b.lane]
        BY <1>12, <1>15, <3>2, <4>1
      <4> QED
        BY <1>14, <4>1, <4>2
    <3> QED
      BY <1>8, <2>2, <3>1, <3>2
  <2> QED
    BY <1>8, <2>1, <2>2 DEF EndsOf
<1>19. \A b \in next.blocks : \E l \in 1..Len(next.ends) : End(b.item) <= next.ends[l]
  <2>1. ASSUME NEW b \in next.blocks PROVE \E l \in 1..Len(now) : End(b.item) <= now[l]
    <3>0. lane \in 1..Len(now) /\ now[lane] = End(x) /\ End(x) \in Nat /\ x.min < End(x) /\ x.min \in Nat
      BY <1>11, <1>14
    <3>1. CASE b = block
      <4>1. End(b.item) <= now[lane]
        BY <1>9, <3>0, <3>1
      <4> QED
        BY <3>0, <4>1
    <3>2. CASE b \in blocks /\ End(b.item) <= x.min
      <4>1. End(b.item) <= now[lane]
        BY <1>12, <3>0, <3>2
      <4> QED
        BY <3>0, <4>1
    <3>3. CASE b \in blocks /\ \E l \in 1..Len(ends) : End(b.item) <= ends[l]
      <4>1. PICK l \in 1..Len(ends) : End(b.item) <= ends[l]
        BY <3>3
      <4>2. ends[l] \in Nat /\ now[l] \in Nat /\ ends[l] <= now[l] /\ End(b.item) \in Nat /\ l \in 1..Len(now)
        BY <1>12, <1>14, <1>15, <3>3
      <4>3. End(b.item) <= now[l]
        BY <4>1, <4>2
      <4> QED
        BY <4>2, <4>3
    <3>4. b = block \/ b \in blocks
      BY <1>8
    <3> QED
      BY <1>1, <1>2, <1>3, <3>1, <3>2, <3>3, <3>4 DEF Ready
  <2> QED
    BY <1>8, <2>1
<1>20. NoneMeet(next.blocks)
  <2>1. ASSUME NEW b \in blocks, b.cluster = cluster, b.lane = lane
        PROVE  End(b.item) <= x.min
    <3>1. b.lane \in 1..Len(ends) /\ End(b.item) <= ends[b.lane]
      BY <1>1, <1>3, <2>1 DEF Ready, EndsOf
    <3> QED
      BY <1>11, <1>12, <1>13, <2>1, <3>1
  <2>2. ASSUME NEW b \in blocks, b.cluster = cluster, b.lane = lane
        PROVE  ~Overlap(b.item, x) /\ ~Overlap(x, b.item)
    BY <1>11, <1>12, <2>1, <2>2 DEF Overlap
  <2>3. NoneMeet(blocks)
    BY <1>3 DEF LanesInv
  <2> QED
    BY <1>8, <1>9, <2>2, <2>3 DEF NoneMeet
<1>21. NoGaps(next.blocks)
  <2>1. ASSUME NEW b \in next.blocks, NEW l \in 1..b.lane
        PROVE  \E c \in next.blocks : c.cluster = b.cluster /\ c.lane = l
                                      /\ c.item.min <= b.item.min /\ b.item.min < End(c.item)
    <3>1. CASE b \in blocks
      BY <1>3, <1>8, <2>1, <3>1 DEF LanesInv, NoGaps
    <3>2. CASE b = block /\ l = lane
      BY <1>8, <1>9, <1>11, <3>2
    <3>3. CASE b = block /\ l # lane
      <4>1. l \in 1..Len(ends) /\ l < lane
        BY <1>9, <1>11, <1>13, <2>1, <3>3
      <4>2. PICK c \in blocks : c.cluster = cluster /\ c.lane = l /\ End(c.item) = ends[l]
        BY <1>1, <1>3, <4>1 DEF Ready, EndsOf
      <4>3. c.item.min <= x.min /\ x.min < End(c.item)
        BY <1>12, <1>13, <4>1, <4>2
      <4> QED
        BY <1>8, <1>9, <3>3, <4>2, <4>3
    <3> QED
      BY <1>8, <3>1, <3>2, <3>3
  <2> QED
    BY <2>1 DEF NoGaps
<1>22. ClustersAreParts(next.blocks, items)
  <2>1. \A b \in blocks : b.cluster = cluster <=> SamePart(items, b.item, x)
    BY <1>1, <1>2, <1>3 DEF Ready
  <2>2. \A b, c \in blocks : b.cluster = c.cluster <=> SamePart(items, b.item, c.item)
    BY <1>3 DEF LanesInv, ClustersAreParts
  <2>3. \A y, z : SamePart(items, y, y) /\ (SamePart(items, y, z) <=> SamePart(items, z, y))
    BY SamePartIsEquality
  <2> QED
    BY <1>8, <1>9, <2>1, <2>2, <2>3 DEF ClustersAreParts
<1> QED
  BY <1>7, <1>16, <1>17, <1>18, <1>19, <1>20, <1>21, <1>22 DEF LanesInv

(* The lanes of the whole day.                                             *)
LEMMA LanesLaid ==
  ASSUME NEW items, IsDay(items), NEW s, IsInTime(s, items)
  PROVE  LanesInv(s, Len(s), Laid(s)[Len(s)], items)
<1>1. Len(s) \in Nat /\ LaysOut(Laid(s), s, Len(s))
  BY LaidBySteps DEF IsInTime
<1> DEFINE bad == {n \in 0..Len(s) : ~LanesInv(s, n, Laid(s)[n], items)}
<1>2. Laid(s)[0] = NoBlocks
  BY <1>1 DEF LaysOut
<1>3. ASSUME NEW n \in Nat, n < Len(s) PROVE Laid(s)[n + 1] = Place(Laid(s)[n], s[n + 1])
  <2>1. n + 1 \in 0..Len(s) /\ n + 1 # 0 /\ (n + 1) - 1 = n
    BY <1>1, <1>3
  <2> QED
    BY <1>1, <2>1 DEF LaysOut
<1>4. LanesInv(s, 0, NoBlocks, items)
  <2>1. FirstItems(s, 0) = {}
    BY DEF FirstItems
  <2>2. NoBlocks.blocks = {} /\ NoBlocks.ends = << >> /\ NoBlocks.cluster = 1
    BY DEF NoBlocks
  <2>3. << >> \in Seq(Nat) /\ Len(<< >>) = 0
    OBVIOUS
  <2> QED
    BY <2>1, <2>2, <2>3 DEF LanesInv, LanesTyped, OneEach, EndsOf, NoneMeet, NoGaps, ClustersAreParts
<1>5. bad = {}
  <2> SUFFICES ASSUME bad # {} PROVE FALSE
    OBVIOUS
  <2>1. PICK n \in bad : \A m \in bad : n <= m
    <3>1. bad \in SUBSET Nat
      BY <1>1
    <3> QED
      BY <3>1, LeastNat
  <2>2. n \in 0..Len(s) /\ ~LanesInv(s, n, Laid(s)[n], items)
    BY <2>1
  <2>3. n # 0
    BY <1>2, <1>4, <2>2
  <2>4. PICK m \in Nat : n = m + 1 /\ m < Len(s) /\ m \in 0..Len(s) /\ ~(n <= m)
    <3>1. n - 1 \in Nat /\ n = (n - 1) + 1 /\ n - 1 < Len(s) /\ n - 1 \in 0..Len(s) /\ ~(n <= n - 1)
      BY <1>1, <2>2, <2>3
    <3> QED
      BY <3>1
  <2>5. LanesInv(s, m, Laid(s)[m], items)
    BY <2>1, <2>4
  <2>6. LanesInv(s, n, Place(Laid(s)[m], s[n]), items)
    BY <2>4, <2>5, PlaceKeeps
  <2> QED
    BY <1>3, <2>2, <2>4, <2>6
<1> QED
  BY <1>1, <1>5

\* What the walk over the blocks of a day comes to.
DayBlocks(s) == Laid(s)[Len(s)].blocks
Cluster(blocks, b) == {c \in blocks : c.cluster = b.cluster}
WidthOf(blocks, b) == Max({c.lane : c \in Cluster(blocks, b)})

(* What the invariant says once the walk is over.                          *)
LEMMA DayLanes ==
  ASSUME NEW items, IsDay(items), NEW s, IsInTime(s, items)
  PROVE  /\ \A b \in DayBlocks(s) : b.lane \in 1..Len(s)
         /\ OneEach(DayBlocks(s), items)
         /\ NoneMeet(DayBlocks(s)) /\ NoGaps(DayBlocks(s)) /\ ClustersAreParts(DayBlocks(s), items)
<1>1. FirstItems(s, Len(s)) = items
  BY DEF FirstItems, IsInTime
<1> QED
  BY <1>1, LanesLaid DEF LanesInv, LanesTyped, DayBlocks

(* The lanes of a cluster count from one up to its width.                  *)
LEMMA WidthOfCluster ==
  ASSUME NEW items, IsDay(items), NEW s, IsInTime(s, items), NEW b \in DayBlocks(s)
  PROVE  /\ WidthOf(DayBlocks(s), b) \in Nat
         /\ \E c \in Cluster(DayBlocks(s), b) : c.lane = WidthOf(DayBlocks(s), b)
         /\ \A c \in Cluster(DayBlocks(s), b) : c.lane \in Nat /\ 1 <= c.lane /\ c.lane <= WidthOf(DayBlocks(s), b)
<1> DEFINE lanes == {c.lane : c \in Cluster(DayBlocks(s), b)}
<1>1. /\ Len(s) \in Nat /\ b \in Cluster(DayBlocks(s), b)
      /\ \A c \in Cluster(DayBlocks(s), b) : c.lane \in Nat /\ 1 <= c.lane /\ c.lane <= Len(s)
  BY DayLanes DEF IsInTime, Cluster
<1>2. lanes \in SUBSET Nat /\ lanes # {} /\ \A l \in lanes : l <= Len(s)
  BY <1>1
<1>3. Max(lanes) \in lanes /\ \A l \in lanes : l <= Max(lanes)
  BY <1>1, <1>2, GreatestNat
<1> QED
  BY <1>1, <1>2, <1>3 DEF WidthOf

Covering(items, moment) == {x \in items : x.min <= moment /\ moment < End(x)}

(* No moment of a cluster has more blocks than the cluster has lanes.      *)
LEMMA NoneBusier ==
  ASSUME NEW items, IsDay(items), NEW s, IsInTime(s, items), NEW b \in DayBlocks(s),
         NEW moment \in Nat
  PROVE  Cardinality(Covering(PartOfDay(items, b.item), moment)) <= WidthOf(DayBlocks(s), b)
<1> DEFINE part == PartOfDay(items, b.item)
           cover == Covering(part, moment)
           most == WidthOf(DayBlocks(s), b)
           blockOf == [x \in cover |-> CHOOSE c \in DayBlocks(s) : c.item = x]
           laneOf == [x \in cover |-> blockOf[x].lane]
<1>1. ASSUME NEW x \in cover
      PROVE  /\ x \in items /\ SamePart(items, x, b.item)
             /\ blockOf[x] \in Cluster(DayBlocks(s), b) /\ blockOf[x].item = x
             /\ laneOf[x] \in 1..most
  <2>1. x \in items /\ SamePart(items, x, b.item)
    BY DEF Covering, PartOfDay, SamePart
  <2>2. \E c \in DayBlocks(s) : c.item = x
    BY <2>1, DayLanes DEF OneEach
  <2>3. blockOf[x] \in DayBlocks(s) /\ blockOf[x].item = x
    BY <2>2
  <2>4. blockOf[x] \in Cluster(DayBlocks(s), b)
    BY <2>1, <2>3, DayLanes DEF ClustersAreParts, Cluster
  <2>5. blockOf[x].lane \in 1..most
    BY <2>4, WidthOfCluster
  <2> QED
    BY <2>1, <2>3, <2>4, <2>5
<1>2. ASSUME NEW x \in cover, NEW y \in cover, x # y PROVE laneOf[x] # laneOf[y]
  <2>1. x \in items /\ y \in items
    BY <1>1
  <2>2. /\ x.min \in Nat /\ x.dur \in Nat /\ x.min <= moment /\ moment < End(x)
        /\ y.min \in Nat /\ y.dur \in Nat /\ y.min <= moment /\ moment < End(y)
    BY <2>1 DEF IsDay, Covering
  <2>3. Overlap(x, y)
    BY <2>2 DEF Overlap, End
  <2>4. PICK c \in DayBlocks(s), d \in DayBlocks(s) :
          /\ c = blockOf[x] /\ d = blockOf[y] /\ c.item = x /\ d.item = y /\ c.cluster = d.cluster
    <3>1. blockOf[x] \in Cluster(DayBlocks(s), b) /\ blockOf[y] \in Cluster(DayBlocks(s), b)
      BY <1>1
    <3> HIDE DEF blockOf
    <3>2. blockOf[x].cluster = blockOf[y].cluster /\ blockOf[x] \in DayBlocks(s) /\ blockOf[y] \in DayBlocks(s)
      BY <3>1 DEF Cluster
    <3> QED
      BY <1>1, <3>2
  <2>5. NoneMeet(DayBlocks(s))
    BY DayLanes
  <2>6. laneOf[x] = c.lane /\ laneOf[y] = d.lane
    BY <2>4
  <2> HIDE DEF laneOf, blockOf, cover
  <2>7. c.lane # d.lane
    BY <1>2, <2>3, <2>4, <2>5 DEF NoneMeet
  <2> QED
    BY <2>6, <2>7
<1>3. laneOf \in Injection(cover, 1..most)
  <2>1. laneOf \in [cover -> 1..most]
    BY <1>1
  <2> QED
    BY <1>2, <2>1 DEF Injection, IsInjective
<1>4. most \in Nat
  BY WidthOfCluster
<1>5. IsFiniteSet(1..most) /\ Cardinality(1..most) = most
  <2>1. 1 \in Int /\ most \in Int
    BY <1>4
  <2> HIDE DEF most
  <2>2. IsFiniteSet(1..most) /\ Cardinality(1..most) = IF 1 > most THEN 0 ELSE most - 1 + 1
    BY <2>1, FS_Interval
  <2> QED
    BY <1>4, <2>2 DEF most
<1> HIDE DEF cover, laneOf, most
<1>6. Cardinality(cover) <= Cardinality(1..most)
  BY <1>3, <1>5, FS_Injection
<1> QED
  BY <1>5, <1>6 DEF cover, most

(* The start of the block in the last lane is a moment with as many.       *)
LEMMA SomeAsBusy ==
  ASSUME NEW items, IsDay(items), NEW s, IsInTime(s, items), NEW b \in DayBlocks(s)
  PROVE  \E y \in PartOfDay(items, b.item) :
           WidthOf(DayBlocks(s), b) <= Cardinality(Covering(PartOfDay(items, b.item), y.min))
<1> DEFINE part == PartOfDay(items, b.item)
           most == WidthOf(DayBlocks(s), b)
<1>1. PICK last \in Cluster(DayBlocks(s), b) : last.lane = most
  BY WidthOfCluster
<1> DEFINE cover == Covering(part, last.item.min)
           before == [l \in 1..most |-> CHOOSE c \in Cluster(DayBlocks(s), b) :
                        c.lane = l /\ c.item.min <= last.item.min /\ last.item.min < End(c.item)]
           itemIn == [l \in 1..most |-> before[l].item]
<1>2. \A c \in Cluster(DayBlocks(s), b) : c.item \in items /\ c.item \in part
  <2>1. ASSUME NEW c \in Cluster(DayBlocks(s), b) PROVE c.item \in items /\ SamePart(items, c.item, b.item)
    BY DayLanes DEF OneEach, ClustersAreParts, Cluster
  <2> QED
    BY <2>1 DEF PartOfDay, SamePart
<1>3. ASSUME NEW l \in 1..most
      PROVE  /\ before[l] \in Cluster(DayBlocks(s), b) /\ before[l].lane = l
             /\ itemIn[l] \in cover
  <2>1. \E c \in Cluster(DayBlocks(s), b) :
          c.lane = l /\ c.item.min <= last.item.min /\ last.item.min < End(c.item)
    BY <1>1, DayLanes DEF NoGaps, Cluster
  <2>2. /\ before[l] \in Cluster(DayBlocks(s), b) /\ before[l].lane = l
        /\ before[l].item.min <= last.item.min /\ last.item.min < End(before[l].item)
    BY <2>1
  <2> HIDE DEF before, part
  <2> QED
    BY <1>2, <2>2 DEF Covering
<1>4. \A l, m \in 1..most : l # m => itemIn[l] # itemIn[m]
  <2>1. \A l, m \in 1..most : before[l].item = before[m].item => before[l] = before[m]
    BY <1>3, DayLanes DEF OneEach, Cluster
  <2> HIDE DEF before
  <2> QED
    BY <1>3, <2>1
<1>5. itemIn \in Injection(1..most, cover)
  <2>1. itemIn \in [1..most -> cover]
    BY <1>3
  <2> HIDE DEF itemIn, cover
  <2> QED
    BY <1>4, <2>1 DEF Injection, IsInjective
<1>6. most \in Nat /\ IsFiniteSet(cover)
  <2>1. IsFiniteSet(items) /\ cover \in SUBSET items
    BY DEF IsDay, Covering, PartOfDay
  <2>2. IsFiniteSet(cover)
    BY <2>1, FS_Subset
  <2> QED
    BY <2>2, WidthOfCluster
<1>7. last.item \in part
  BY <1>2
<1> HIDE DEF cover, itemIn, most
<1>8. Cardinality(1..most) <= Cardinality(cover)
  BY <1>5, <1>6, FS_Injection
<1>9. Cardinality(1..most) = most
  <2>1. 1 \in Int /\ most \in Int
    BY <1>6
  <2>2. Cardinality(1..most) = IF 1 > most THEN 0 ELSE most - 1 + 1
    BY <2>1, FS_Interval
  <2> QED
    BY <1>6, <2>2
<1> QED
  BY <1>7, <1>8, <1>9 DEF cover, most

(* The width of a cluster is what its busiest moment needs.                *)
LEMMA WidthIsBusiest ==
  ASSUME NEW items, IsDay(items), NEW s, IsInTime(s, items), NEW b \in DayBlocks(s)
  PROVE  WidthOf(DayBlocks(s), b) = Busiest(PartOfDay(items, b.item))
<1> DEFINE part == PartOfDay(items, b.item)
           counts == {Cardinality(Covering(part, y.min)) : y \in part}
<1>1. PICK most \in Nat : most = WidthOf(DayBlocks(s), b)
  BY WidthOfCluster
<1>2. ASSUME NEW y \in part
      PROVE  Cardinality(Covering(part, y.min)) \in Nat /\ Cardinality(Covering(part, y.min)) <= most
  <2>1. IsFiniteSet(items) /\ Covering(part, y.min) \in SUBSET items /\ y \in items
    BY DEF IsDay, Covering, PartOfDay
  <2>2. y.min \in Nat
    BY <2>1 DEF IsDay
  <2>3. IsFiniteSet(Covering(part, y.min))
    BY <2>1, FS_Subset
  <2> QED
    BY <1>1, <2>2, <2>3, FS_CardinalityType, NoneBusier
<1>3. counts \in SUBSET Nat /\ \A n \in counts : n <= most
  BY <1>2
<1>4. most \in counts
  <2>1. PICK y \in part : most <= Cardinality(Covering(part, y.min))
    BY <1>1, SomeAsBusy
  <2>2. Cardinality(Covering(part, y.min)) = most
    BY <1>2, <2>1
  <2> QED
    BY <2>2
<1>5. Max(counts) = most
  BY <1>3, <1>4, MaxIs
<1> QED
  BY <1>1, <1>5 DEF Busiest, Covering

(* What layoutLanes makes of a day's events.                               *)
LEMMA LayoutRight ==
  ASSUME NEW items, IsDay(items), NEW s, IsInTime(s, items)
  PROVE  /\ \A a \in LayoutLanes(s) :
              /\ a.item \in items /\ a.lane \in Nat /\ a.lanes \in Nat /\ 1 <= a.lane /\ a.lane <= a.lanes
              /\ a.lanes = Busiest(PartOfDay(items, a.item))
         /\ \A a, b \in LayoutLanes(s) :
              a # b /\ Overlap(a.item, b.item) => a.lane # b.lane /\ a.lanes = b.lanes
<1> DEFINE drawn(b) == [item |-> b.item, lane |-> b.lane, lanes |-> WidthOf(DayBlocks(s), b)]
<1>1. LayoutLanes(s) = {drawn(b) : b \in DayBlocks(s)}
  BY DEF LayoutLanes, DayBlocks, WidthOf, Cluster
<1>2. ASSUME NEW b \in DayBlocks(s)
      PROVE  /\ drawn(b).item \in items /\ drawn(b).lane \in Nat /\ drawn(b).lanes \in Nat
             /\ 1 <= drawn(b).lane /\ drawn(b).lane <= drawn(b).lanes
             /\ drawn(b).lanes = Busiest(PartOfDay(items, drawn(b).item))
  <2>1. b.item \in items /\ b \in Cluster(DayBlocks(s), b)
    BY DayLanes DEF OneEach, Cluster
  <2> QED
    BY <2>1, WidthOfCluster, WidthIsBusiest
<1>3. ASSUME NEW b \in DayBlocks(s), NEW c \in DayBlocks(s), drawn(b) # drawn(c), Overlap(b.item, c.item)
      PROVE  drawn(b).lane # drawn(c).lane /\ drawn(b).lanes = drawn(c).lanes
  <2>1. b.item \in items /\ c.item \in items
    BY DayLanes DEF OneEach
  <2>2. SamePart(items, b.item, c.item)
    <3>1. /\ b.item.min \in Nat /\ c.item.min \in Nat
          /\ b.item.min < End(c.item) /\ c.item.min < End(b.item)
      BY <1>3, <2>1 DEF IsDay, Overlap
    <3>2. CASE b.item.min <= c.item.min
      BY <2>1, <3>1, <3>2, TogetherSamePart
    <3>3. CASE c.item.min <= b.item.min
      BY <2>1, <3>1, <3>3, TogetherSamePart, SamePartIsEquality
    <3> QED
      BY <3>1, <3>2, <3>3
  <2>3. b.cluster = c.cluster
    BY <2>2, DayLanes DEF ClustersAreParts
  <2>4. b # c
    BY <1>3
  <2>5. b.lane # c.lane
    BY <1>3, <2>3, <2>4, DayLanes DEF NoneMeet
  <2>6. WidthOf(DayBlocks(s), b) = WidthOf(DayBlocks(s), c)
    BY <2>3 DEF WidthOf, Cluster
  <2> QED
    BY <2>5, <2>6
<1>4. \A b \in DayBlocks(s) : drawn(b).item = b.item
  OBVIOUS
<1> HIDE DEF drawn
<1> QED
  BY <1>1, <1>2, <1>3, <1>4

(* A sequence of a finite set's elements without repetition has them all.  *)
LEMMA AllInSeq ==
  ASSUME NEW S, IsFiniteSet(S), NEW s \in SetToSeqs(S)
  PROVE  /\ Len(s) = Cardinality(S) /\ Len(s) \in Nat /\ DOMAIN s = 1..Len(s)
         /\ S = {s[i] : i \in 1..Len(s)}
         /\ \A i, j \in 1..Len(s) : i # j => s[i] # s[j]
<1> DEFINE n == Cardinality(S)
<1>1. n \in Nat
  BY FS_CardinalityType
<1>2. s \in [1..n -> S] /\ \A i, j \in 1..n : i # j => s[i] # s[j]
  BY DEF SetToSeqs
<1> HIDE DEF n
<1>3. Len(s) = n /\ DOMAIN s = 1..n
  BY <1>1, <1>2
<1>4. s \in Injection(1..n, S)
  BY <1>2 DEF Injection, IsInjective
<1>5. Cardinality(1..n) = n
  <2>1. 1 \in Int /\ n \in Int
    BY <1>1
  <2>2. Cardinality(1..n) = IF 1 > n THEN 0 ELSE n - 1 + 1
    BY <2>1, FS_Interval
  <2> QED
    BY <1>1, <2>2
<1>6. s \in Surjection(1..n, S)
  BY <1>4, <1>5, FS_Injection DEF n
<1>7. S = {s[i] : i \in 1..n}
  BY <1>2, <1>6 DEF Surjection
<1> QED
  BY <1>1, <1>2, <1>3, <1>7 DEF n

(* What a function makes of a finite set is finite.                        *)
LEMMA FiniteImage ==
  ASSUME NEW S, IsFiniteSet(S), NEW f
  PROVE  IsFiniteSet({f[x] : x \in S})
<1> DEFINE g == [x \in S |-> f[x]]
           T == {f[x] : x \in S}
<1>1. g \in Surjection(S, T)
  BY DEF Surjection
<1> HIDE DEF g, T
<1>2. IsFiniteSet(T)
  BY <1>1, FS_Surjection
<1> QED
  BY <1>2 DEF T

-----------------------------------------------------------------------------
(* The entries the page holds are finitely many, and of slots.             *)

Entries(entries) == IsFiniteSet(entries) /\ \A x \in entries : x.slot \in Slot

EntriesInv ==
  /\ IsFiniteSet(DOMAIN server) /\ \A e \in DOMAIN server : server[e] \in Slot
  /\ \A q \in asked : Entries(q.reply)
  /\ Entries(DOMAIN events)

(* The page opens with none, on finitely many events.                      *)
LEMMA EntriesStart == CalendarInit => EntriesInv
<1> SUFFICES ASSUME CalendarInit PROVE EntriesInv
  OBVIOUS
<1>1. server \in [Opening -> Slot] /\ DOMAIN events = {} /\ \A q \in asked : q.reply = {}
  BY DEF CalendarInit, EmptyBag, SetToBag, Request
<1>2. IsFiniteSet(Opening)
  BY CalendarAssumption
<1> QED
  BY <1>1, <1>2, FS_EmptySet DEF EntriesInv, Entries

(* What the server reads of finitely many events is finite.                *)
LEMMA EntriesRead ==
  ASSUME EntriesInv, NEW range
  PROVE  Entries(EventsIn(range))
<1> DEFINE within == {d \in DOMAIN server : range.from <= server[d].day /\ server[d].day < range.to}
           read == [e \in DOMAIN server |-> [event |-> e, slot |-> server[e]]]
<1>1. IsFiniteSet(within)
  <2>1. IsFiniteSet(DOMAIN server) /\ within \in SUBSET DOMAIN server
    BY DEF EntriesInv
  <2> HIDE DEF within
  <2> QED
    BY <2>1, FS_Subset
<1>2. EventsIn(range) = {read[e] : e \in within}
  BY DEF EventsIn
<1>3. IsFiniteSet({read[e] : e \in within})
  BY <1>1, FiniteImage
<1>4. \A x \in EventsIn(range) : x.slot \in Slot
  BY DEF EntriesInv, EventsIn
<1> QED
  BY <1>2, <1>3, <1>4 DEF Entries

(* Answers, failures and edits keep it so.                                 *)
LEMMA EntriesSteps == EntriesInv /\ [CalendarNext]_vars => EntriesInv'
<1> SUFFICES ASSUME EntriesInv, [CalendarNext]_vars PROVE EntriesInv'
  OBVIOUS
<1>1. ASSUME NEW day, NEW v, Show(day, v) PROVE EntriesInv'
  <2>1. UNCHANGED <<server, events>> /\ \A q \in asked' : q \in asked \/ q.reply = {}
    BY <1>1 DEF Show, Request
  <2> QED
    BY <2>1, FS_EmptySet DEF EntriesInv, Entries
<1>2. ASSUME NEW q \in asked, Answer(q) PROVE EntriesInv'
  <2>1. UNCHANGED <<server, events>> /\ \A p \in asked' : p \in asked \/ p.reply = EventsIn(q.range)
    BY <1>2 DEF Answer, unread
  <2> QED
    BY <2>1, EntriesRead DEF EntriesInv, Entries
<1>3. ASSUME NEW q \in asked, ArriveEvents(q) PROVE EntriesInv'
  <2> DEFINE new == {x \in q.reply : x.event \notin Seen}
  <2>1. UNCHANGED server /\ asked' = asked \ {q} /\ events' = events (+) SetToBag(new)
    BY <1>3 DEF ArriveEvents, unread
  <2>2. DOMAIN events' = DOMAIN events \cup new
    BY <2>1 DEF (+), SetToBag
  <2>3. IsFiniteSet(new) /\ \A x \in new : x.slot \in Slot
    <3>1. IsFiniteSet(q.reply) /\ new \in SUBSET q.reply /\ \A x \in q.reply : x.slot \in Slot
      BY DEF EntriesInv, Entries
    <3> HIDE DEF new
    <3> QED
      BY <3>1, FS_Subset
  <2>4. IsFiniteSet(DOMAIN events \cup new)
    BY <2>3, FS_Union DEF EntriesInv, Entries
  <2> QED
    BY <2>1, <2>2, <2>3, <2>4 DEF EntriesInv, Entries
<1>4. ASSUME NEW q \in asked, Fail(q) PROVE EntriesInv'
  BY <1>4 DEF Fail, unread, EntriesInv, Entries
<1>5. ASSUME NEW year \in askedYears, ArriveSeasons(year) PROVE EntriesInv'
  BY <1>5 DEF ArriveSeasons, unread, EntriesInv, Entries
<1>6. ASSUME NEW e \in Event, Edit(e) PROVE EntriesInv'
  <2>1. UNCHANGED <<asked, events>>
    BY <1>6 DEF Edit, pageVars
  <2>2. IsFiniteSet(DOMAIN server') /\ \A d \in DOMAIN server' : server'[d] \in Slot
    <3>1. IsFiniteSet(DOMAIN server \cup {e}) /\ IsFiniteSet(DOMAIN server \ {e})
      BY FS_AddElement, FS_RemoveElement DEF EntriesInv
    <3>2. ASSUME NEW slot \in Slot, server' = Put(server, e, slot)
          PROVE  IsFiniteSet(DOMAIN server') /\ \A d \in DOMAIN server' : server'[d] \in Slot
      BY <3>1, <3>2 DEF Put, EntriesInv
    <3>3. ASSUME server' = Without(server, e)
          PROVE  IsFiniteSet(DOMAIN server') /\ \A d \in DOMAIN server' : server'[d] \in Slot
      BY <3>1, <3>3 DEF Without, EntriesInv
    <3> QED
      BY <1>6, <3>2, <3>3 DEF Edit
  <2> QED
    BY <2>1, <2>2 DEF EntriesInv, Entries
<1>7. CASE UNCHANGED vars
  BY <1>7 DEF vars, pageVars, EntriesInv, Entries
<1> QED
  BY <1>1, <1>2, <1>3, <1>4, <1>5, <1>6, <1>7 DEF CalendarNext, Exchange, Go, GoToday, SetView

(* So they are finitely many in every state.                               *)
LEMMA EntriesInvariant == CalendarSpec => []EntriesInv
BY EntriesStart, EntriesSteps, PTL DEF CalendarSpec

-----------------------------------------------------------------------------
(* The items of a day.                                                     *)

(* An entry's item starts on a minute and lasts 15 of them or more.        *)
LEMMA ItemShape ==
  ASSUME NEW x, x.slot \in Slot
  PROVE  /\ Item(x).min \in Nat /\ Item(x).dur \in Nat /\ Item(x).dur >= 15
         /\ Item(x).rank = x.slot.rank
<1>1. PICK d \in Nat : d = x.slot.dur
  BY CalendarAssumption
<1>2. {15, d} \in SUBSET Nat /\ {15, d} # {} /\ \A y \in {15, d} : y <= 15 + d
  BY <1>1
<1>3. Max({15, d}) \in {15, d} /\ \A y \in {15, d} : y <= Max({15, d})
  <2>1. 15 + d \in Nat
    BY <1>1
  <2> QED
    BY <1>2, <2>1, GreatestNat
<1>4. Max({15, d}) \in Nat /\ Max({15, d}) >= 15
  BY <1>1, <1>3
<1> QED
  BY <1>1, <1>4, CalendarAssumption DEF Item

(* The items of a day are finitely many, and each lasts.                   *)
LEMMA DayOfItems ==
  ASSUME EntriesInv, NEW day
  PROVE  IsDay(ItemsFor(day)) /\ \A x \in ItemsFor(day) : x.dur >= 15
<1> DEFINE held == {y \in DOMAIN events : y.slot.day = day}
           item == [x \in held |-> Item(x)]
<1>1. IsFiniteSet(held)
  <2>1. IsFiniteSet(DOMAIN events) /\ held \in SUBSET DOMAIN events
    BY DEF EntriesInv, Entries
  <2> HIDE DEF held
  <2> QED
    BY <2>1, FS_Subset
<1>2. ItemsFor(day) = {item[x] : x \in held}
  BY DEF ItemsFor
<1>3. IsFiniteSet({item[x] : x \in held})
  BY <1>1, FiniteImage
<1>4. ASSUME NEW x \in ItemsFor(day) PROVE x.min \in Nat /\ x.dur \in Nat /\ x.dur >= 15
  <2>1. PICK y \in DOMAIN events : x = Item(y)
    BY DEF ItemsFor
  <2>2. y.slot \in Slot
    BY DEF EntriesInv, Entries
  <2> QED
    BY <2>1, <2>2, ItemShape
<1> QED
  BY <1>2, <1>3, <1>4 DEF IsDay

(* A sort by time has all of the day, in order.                            *)
LEMMA SortedDay ==
  ASSUME NEW items, IsDay(items), NEW byTime \in ByTime(items)
  PROVE  IsInTime(byTime, items)
<1>1. byTime \in SetToSeqs(items) /\ \A i, j \in DOMAIN byTime : i < j => byTime[i].min <= byTime[j].min
  BY DEF ByTime
<1> QED
  BY <1>1, AllInSeq DEF IsDay, IsInTime

(***************************************************************************)
(* Whatever events the page holds, blocks that overlap in time stand in    *)
(* different lanes of one width, and the width of a part of the day is     *)
(* what its busiest moment needs (calendar.ts, layoutLanes).               *)
(***************************************************************************)
THEOREM LanesAlwaysFit == CalendarSpec => []LanesFit
<1>1. EntriesInv => LanesFit
  <2> SUFFICES ASSUME EntriesInv, NEW day, NEW byTime \in ByTime(ItemsFor(day)),
                      NEW a \in LayoutLanes(byTime), NEW b \in LayoutLanes(byTime)
               PROVE  /\ a.lanes = Busiest(PartOfDay(ItemsFor(day), a.item))
                      /\ a # b /\ Overlap(a.item, b.item) => a.lane # b.lane /\ a.lanes = b.lanes
    BY DEF LanesFit
  <2>1. IsDay(ItemsFor(day)) /\ IsInTime(byTime, ItemsFor(day))
    BY DayOfItems, SortedDay
  <2> QED
    BY <2>1, LayoutRight
<1> QED
  BY <1>1, EntriesInvariant, PTL

(* So are those the filter lets through, of ranks up to the last.          *)
LEMMA FilteredDay ==
  ASSUME EntriesInv, NEW day
  PROVE  /\ IsDay(Filtered(day)) /\ \A x \in Filtered(day) : x.dur >= 15 /\ x.rank \in 0..Parroquial
<1>1. IsDay(ItemsFor(day)) /\ \A x \in ItemsFor(day) : x.dur >= 15
  BY DayOfItems
<1>2. Filtered(day) \in SUBSET ItemsFor(day)
  BY DEF Filtered
<1>3. IsFiniteSet(Filtered(day))
  BY <1>1, <1>2, FS_Subset DEF IsDay
<1>4. ASSUME NEW x \in ItemsFor(day) PROVE x.rank \in 0..Parroquial
  <2>1. PICK y \in DOMAIN events : x = Item(y)
    BY DEF ItemsFor
  <2>2. y.slot \in Slot
    BY DEF EntriesInv, Entries
  <2>3. x.rank = y.slot.rank
    BY <2>1, <2>2, ItemShape
  <2> QED
    BY <2>2, <2>3, VisitorAssumption
<1> QED
  BY <1>1, <1>2, <1>3, <1>4 DEF IsDay

-----------------------------------------------------------------------------
(* The week's boxes.                                                       *)

(* Rounding twice loses less than two pixels.                              *)
LEMMA PixelsAdd ==
  ASSUME NEW p \in Int, NEW d \in Nat, NEW q \in Int, p + d <= q
  PROVE  /\ Pixels(p) \in Int /\ Pixels(d) \in Int /\ Pixels(q) \in Int
         /\ Pixels(p) + Pixels(d) - 1 <= Pixels(q)
         /\ d >= 35 => Pixels(d) >= 32
<1>1. ROW \div 6 = 9
  BY DEF ROW
<1>2. \A m \in Int : Pixels(m) = ((m * 9) + 5) \div 10
  BY <1>1 DEF Pixels, Round
<1>3. \A m \in Int : /\ ((m * 9) + 5) \div 10 \in Int
                     /\ 10 * (((m * 9) + 5) \div 10) <= (m * 9) + 5
                     /\ (m * 9) + 5 < 10 * (((m * 9) + 5) \div 10) + 10
  OBVIOUS
<1>4. \A m \in Int : Pixels(m) \in Int /\ 10 * Pixels(m) <= (m * 9) + 5 /\ (m * 9) + 5 < (10 * Pixels(m)) + 10
  BY <1>2, <1>3
<1>5. PICK a \in Int, b \in Int, c \in Int : a = Pixels(p) /\ b = Pixels(d) /\ c = Pixels(q)
  <2>1. Pixels(p) \in Int /\ Pixels(d) \in Int /\ Pixels(q) \in Int
    BY <1>4
  <2> QED
    BY <2>1
<1>6. /\ 10 * a <= (p * 9) + 5 /\ 10 * b <= (d * 9) + 5 /\ (q * 9) + 5 < (10 * c) + 10
      /\ (d * 9) + 5 < (10 * b) + 10
  BY <1>4, <1>5
<1>7. (a + b) - 1 <= c /\ (d >= 35 => b >= 32)
  BY <1>6
<1> QED
  BY <1>5, <1>7

(* From 35 minutes on, the least height does not matter.                   *)
LEMMA HeightOf ==
  ASSUME NEW d \in Nat, d >= 35
  PROVE  Max({28, Pixels(d) - 3}) = Pixels(d) - 3
<1>1. PICK b \in Int : b = Pixels(d) /\ b >= 32
  BY PixelsAdd
<1>2. {28, b - 3} \in SUBSET Nat /\ \A x \in {28, b - 3} : x <= b - 3
  BY <1>1
<1>3. Max({28, b - 3}) = b - 3
  BY <1>2, MaxIs
<1> QED
  BY <1>1, <1>3

(* Blocks in different lanes of one width stand side by side.              *)
LEMMA LanesSideBySide ==
  ASSUME NEW a, NEW b, a.lane \in Nat, b.lane \in Nat, a.lanes \in Nat, a.lanes = b.lanes, a.lane # b.lane
  PROVE  SideBySide(a, b)
<1>1. PICK x \in Nat, y \in Nat, w \in Nat : x = a.lane /\ y = b.lane /\ w = a.lanes
  OBVIOUS
<1>2. CASE x <= y - 1
  <2>1. x * w <= (y - 1) * w
    BY <1>2
  <2> QED
    BY <1>1, <2>1 DEF SideBySide
<1>3. CASE y <= x - 1
  <2>1. y * w <= (x - 1) * w
    BY <1>3
  <2> QED
    BY <1>1, <2>1 DEF SideBySide
<1>4. x <= y - 1 \/ y <= x - 1
  BY <1>1
<1> QED
  BY <1>2, <1>3, <1>4

(* Later blocks of a lane start below the earlier ones.                    *)
LEMMA BoxesStayApart == EntriesInv => BoxesApart
<1> SUFFICES ASSUME EntriesInv, NEW day, NEW byTime \in ByTime(Filtered(day)),
                    NEW a \in LayoutLanes(byTime), NEW b \in LayoutLanes(byTime),
                    a # b, a.item.min <= b.item.min, a.item.dur >= 35, ~SideBySide(a, b)
             PROVE  BlockBox(a).top + BlockBox(a).height < BlockBox(b).top
  BY DEF BoxesApart
<1>1. IsDay(Filtered(day)) /\ IsInTime(byTime, Filtered(day))
  BY FilteredDay, SortedDay
<1>2. /\ a.item \in Filtered(day) /\ a.lane \in Nat /\ a.lanes \in Nat
      /\ b.item \in Filtered(day) /\ b.lane \in Nat /\ b.lanes \in Nat
      /\ Overlap(a.item, b.item) => a.lane # b.lane /\ a.lanes = b.lanes
  BY <1>1, LayoutRight
<1>3. ~Overlap(a.item, b.item)
  BY <1>2, LanesSideBySide
<1>4. PICK m \in Nat, d \in Nat, n \in Nat : m = a.item.min /\ d = a.item.dur /\ n = b.item.min
  BY <1>1, <1>2 DEF IsDay
<1>5. b.item.dur \in Nat /\ b.item.dur > 0
  BY <1>1, <1>2 DEF IsDay
<1>6. m + d <= n
  BY <1>3, <1>4, <1>5 DEF Overlap, End
<1>7. BlockBox(a).top = Pixels(m - 300) /\ BlockBox(a).height = Pixels(d) - 3 /\ BlockBox(b).top = Pixels(n - 300)
  <2>1. 60 * H0 = 300
    BY DEF H0
  <2>2. BlockBox(a).height = Max({28, Pixels(d) - 3})
    BY <1>4 DEF BlockBox
  <2>3. Max({28, Pixels(d) - 3}) = Pixels(d) - 3
    BY <1>4, HeightOf
  <2> QED
    BY <1>4, <2>1, <2>2, <2>3 DEF BlockBox
<1>8. /\ Pixels(m - 300) \in Int /\ Pixels(d) \in Int /\ Pixels(n - 300) \in Int
      /\ Pixels(m - 300) + Pixels(d) - 1 <= Pixels(n - 300)
  <2>1. m - 300 \in Int /\ n - 300 \in Int /\ (m - 300) + d <= n - 300
    BY <1>6
  <2> QED
    BY <2>1, PixelsAdd
<1> QED
  BY <1>7, <1>8

-----------------------------------------------------------------------------
(* The month grid's cells.                                                 *)

(* Sorted by rank, the day's celebration comes first if there is one.      *)
LEMMA CelebrationFirst ==
  ASSUME NEW S, IsFiniteSet(S), \A x \in S : x.rank \in 0..Parroquial, NEW s \in ByRank(S),
         Liturgical(s) # {}
  PROVE  1 \in DOMAIN s /\ CelebrationOf(s) = {s[1]}
<1>1. s \in SetToSeqs(S) /\ \A i, j \in DOMAIN s : i < j => s[i].rank < s[j].rank \/ s[i].rank = s[j].rank
  BY DEF ByRank
<1>2. /\ DOMAIN s = 1..Len(s) /\ Len(s) \in Nat /\ S = {s[i] : i \in 1..Len(s)}
  BY <1>1, AllInSeq
<1>3. PICK c \in DOMAIN s : s[c].rank # Parroquial
  BY DEF Liturgical
<1>4. 1 \in DOMAIN s /\ (c = 1 \/ 1 < c)
  BY <1>2, <1>3
<1>5. s[1].rank \in 0..Parroquial /\ s[c].rank \in 0..Parroquial
  BY <1>2, <1>3, <1>4
<1>6. s[1].rank <= s[c].rank
  BY <1>1, <1>3, <1>4, <1>5
<1>7. s[1].rank # Parroquial
  BY <1>3, <1>5, <1>6, VisitorAssumption
<1>8. Liturgical(s) \in SUBSET Nat /\ 1 \in Liturgical(s) /\ \A i \in Liturgical(s) : 1 <= i
  BY <1>2, <1>4, <1>7 DEF Liturgical
<1>9. Min(Liturgical(s)) = 1
  <2>1. Min(Liturgical(s)) \in Liturgical(s) /\ \A i \in Liturgical(s) : Min(Liturgical(s)) <= i
    BY <1>8, LeastNat
  <2>2. Min(Liturgical(s)) \in Nat /\ Min(Liturgical(s)) <= 1 /\ 1 <= Min(Liturgical(s))
    BY <1>8, <2>1
  <2> QED
    BY <2>2
<1> QED
  BY <1>4, <1>8, <1>9 DEF CelebrationOf

(* How many numbers an interval has, if only just none.                    *)
LEMMA Interval ==
  ASSUME NEW a \in Int, NEW b \in Int, a <= b + 1
  PROVE  IsFiniteSet(a..b) /\ Cardinality(a..b) = b - a + 1
<1>1. IsFiniteSet(a..b) /\ Cardinality(a..b) = IF a > b THEN 0 ELSE b - a + 1
  BY FS_Interval
<1> QED
  BY <1>1

(* A cell tells the first two of the day, and counts the others.           *)
LEMMA CellTells ==
  ASSUME NEW S, IsFiniteSet(S), \A x \in S : x.rank \in 0..Parroquial, NEW s \in ByRank(S)
  PROVE  LET first == {i \in DOMAIN s : i <= 2}
         IN  /\ Cell(s).celeb \cup Cell(s).shown = {s[i] : i \in first}
             /\ Cell(s).extra = Cardinality(S) - Cardinality(first)
<1> DEFINE first == {i \in DOMAIN s : i <= 2}
           celeb == CelebrationOf(s)
           chips == {i \in DOMAIN s : s[i] \notin celeb}
           room == IF celeb = {} THEN 2 ELSE 1
           shown == {i \in chips : Cardinality({j \in chips : j < i}) < room}
<1>1. /\ Cell(s).celeb = celeb /\ Cell(s).shown = {s[i] : i \in shown}
      /\ Cell(s).extra = Cardinality(chips) - Cardinality(shown)
  BY DEF Cell
<1>2. s \in SetToSeqs(S)
  BY DEF ByRank
<1>3. /\ Len(s) = Cardinality(S) /\ Len(s) \in Nat /\ DOMAIN s = 1..Len(s)
      /\ \A i, j \in 1..Len(s) : i # j => s[i] # s[j]
  BY <1>2, AllInSeq
<1> DEFINE N == Len(s)
<1>4. IsFiniteSet(DOMAIN s) /\ Cardinality(DOMAIN s) = N /\ IsFiniteSet(first) /\ Cardinality(first) \in Nat
  <2>1. IsFiniteSet(1..N) /\ Cardinality(1..N) = N
    <3>1. 1 \in Int /\ N \in Int /\ 1 <= N + 1
      BY <1>3
    <3> HIDE DEF N
    <3>2. IsFiniteSet(1..N) /\ Cardinality(1..N) = N - 1 + 1
      BY <3>1, Interval
    <3> QED
      BY <3>1, <3>2
  <2>2. IsFiniteSet(DOMAIN s) /\ first \in SUBSET DOMAIN s
    BY <1>3, <2>1
  <2> HIDE DEF first
  <2>3. IsFiniteSet(first)
    BY <2>2, FS_Subset
  <2> QED
    BY <1>3, <2>1, <2>3, FS_CardinalityType
<1>5. CASE Liturgical(s) = {}
  <2>1. celeb = {} /\ chips = DOMAIN s /\ room = 2
    BY <1>5 DEF CelebrationOf
  <2>2. ASSUME NEW i \in DOMAIN s PROVE Cardinality({j \in DOMAIN s : j < i}) = i - 1
    <3>1. {j \in DOMAIN s : j < i} = 1..(i - 1) /\ 1 \in Int /\ i - 1 \in Int /\ 1 <= (i - 1) + 1 /\ i \in Int
      BY <1>3
    <3>2. Cardinality(1..(i - 1)) = (i - 1) - 1 + 1
      BY <3>1, Interval
    <3>3. Cardinality(1..(i - 1)) = i - 1
      BY <3>1, <3>2
    <3> QED
      BY <3>1, <3>3, Zenon
  <2>3. shown = first
    BY <1>3, <2>1, <2>2
  <2> HIDE DEF celeb, chips, shown, first
  <2> QED
    BY <1>1, <1>3, <1>4, <2>1, <2>3 DEF first
<1>6. CASE Liturgical(s) # {}
  <2>1. 1 \in DOMAIN s /\ celeb = {s[1]} /\ room = 1
    BY <1>6, CelebrationFirst
  <2>2. chips = DOMAIN s \ {1}
    BY <1>3, <2>1
  <2>3. ASSUME NEW i \in chips PROVE Cardinality({j \in chips : j < i}) = i - 2
    <3>1. {j \in chips : j < i} = 2..(i - 1) /\ 2 \in Int /\ i - 1 \in Int /\ 2 <= (i - 1) + 1 /\ i \in Int
      BY <1>3, <2>2
    <3>2. Cardinality(2..(i - 1)) = (i - 1) - 2 + 1
      BY <3>1, Interval
    <3>3. Cardinality(2..(i - 1)) = i - 2
      BY <3>1, <3>2
    <3> QED
      BY <3>1, <3>3, Zenon
  <2>4. shown = first \ {1}
    BY <1>3, <2>1, <2>2, <2>3
  <2>5. 1 \in first
    BY <2>1
  <2> HIDE DEF celeb, chips, shown, first
  <2>6. Cardinality(chips) = N - 1 /\ Cardinality(shown) = Cardinality(first) - 1
    BY <1>4, <2>1, <2>2, <2>4, <2>5, FS_RemoveElement
  <2>7. Cell(s).extra = Cardinality(S) - Cardinality(first)
    BY <1>1, <1>3, <1>4, <2>6
  <2>8. Cell(s).celeb \cup Cell(s).shown = {s[i] : i \in first}
    BY <1>1, <2>1, <2>4, <2>5
  <2> QED
    BY <2>7, <2>8 DEF first
<1> QED
  BY <1>5, <1>6

(* The first two of the day are the two of the highest rank.               *)
LEMMA CellsHideLeast == EntriesInv => CellsHideTheLeast
<1> SUFFICES ASSUME EntriesInv, NEW day, NEW s \in ByRank(Filtered(day))
             PROVE  LET cell == Cell(s)
                        told == cell.celeb \cup cell.shown
                    IN  /\ Cardinality(told) + cell.extra = Cardinality(Filtered(day))
                        /\ Cardinality(told) <= 2
                        /\ \A hidden \in Filtered(day) \ told, x \in told : x.rank <= hidden.rank
  BY DEF CellsHideTheLeast
<1> DEFINE S == Filtered(day)
           told == Cell(s).celeb \cup Cell(s).shown
           first == {i \in DOMAIN s : i <= 2}
<1>1. IsFiniteSet(S) /\ \A x \in S : x.rank \in 0..Parroquial
  BY FilteredDay DEF IsDay
<1>2. s \in SetToSeqs(S) /\ \A i, j \in DOMAIN s : i < j => s[i].rank < s[j].rank \/ s[i].rank = s[j].rank
  BY DEF ByRank
<1>3. told = {s[i] : i \in first} /\ Cell(s).extra = Cardinality(S) - Cardinality(first)
  BY <1>1, CellTells
<1>4. /\ Len(s) \in Nat /\ DOMAIN s = 1..Len(s) /\ S = {s[i] : i \in 1..Len(s)}
      /\ \A i, j \in 1..Len(s) : i # j => s[i] # s[j]
  BY <1>1, <1>2, AllInSeq
<1>5. IsFiniteSet(first) /\ Cardinality(first) \in Nat /\ Cardinality(first) <= 2
  <2>1. first \in SUBSET (1..2)
    BY <1>4
  <2>2. IsFiniteSet(1..2) /\ Cardinality(1..2) = 2
    <3>1. 1 \in Int /\ 2 \in Int /\ 1 <= 2 + 1
      OBVIOUS
    <3>2. IsFiniteSet(1..2) /\ Cardinality(1..2) = 2 - 1 + 1
      BY <3>1, Interval
    <3> QED
      BY <3>2
  <2> HIDE DEF first
  <2> QED
    BY <2>1, <2>2, FS_Subset, FS_CardinalityType
<1>6. Cardinality(told) = Cardinality(first)
  <2> DEFINE pick == [i \in first |-> s[i]]
  <2>1. pick \in Bijection(first, told)
    <3>1. pick \in [first -> told] /\ \A x \in told : \E i \in first : pick[i] = x
      BY <1>3
    <3>2. \A i, j \in first : pick[i] = pick[j] => i = j
      BY <1>4
    <3> HIDE DEF pick, told, first
    <3> QED
      BY <3>1, <3>2 DEF Bijection, Injection, IsInjective, Surjection
  <2>2. ExistsBijection(first, told)
    BY <2>1 DEF ExistsBijection
  <2> HIDE DEF told, first
  <2> QED
    BY <1>5, <2>2, FS_Bijection
<1>7. Cardinality(S) \in Nat
  BY <1>1, FS_CardinalityType
<1>8. ASSUME NEW hidden \in S \ told, NEW x \in told PROVE x.rank <= hidden.rank
  <2>1. PICK i \in first : x = s[i]
    BY <1>3
  <2>2. PICK j \in 1..Len(s) : hidden = s[j]
    BY <1>4
  <2>3. j \notin first
    BY <1>3, <2>2
  <2>4. i \in DOMAIN s /\ j \in DOMAIN s /\ i < j
    BY <1>4, <2>1, <2>2, <2>3
  <2>5. x \in S /\ hidden \in S
    BY <1>4, <2>1, <2>2, <2>4
  <2> QED
    BY <1>1, <1>2, <2>1, <2>2, <2>4, <2>5
<1> HIDE DEF S, told, first
<1>9. Cardinality(told) + Cell(s).extra = Cardinality(S) /\ Cardinality(told) <= 2
  BY <1>3, <1>5, <1>6, <1>7
<1> QED
  BY <1>8, <1>9 DEF S, told

(***************************************************************************)
(* Whatever the filter, a cell of the month grid accounts for everything   *)
(* on its day in at most two lines, and hides nothing that outranks what   *)
(* it shows (MonthGrid.tsx; calendar.ts, celebrationOf).                   *)
(***************************************************************************)
THEOREM CellsAlwaysHideTheLeast == CalendarInit /\ [][VisitorNext]_visitorVars => []CellsHideTheLeast
BY VisitorOnlyLooks, EntriesInvariant, CellsHideLeast, PTL

(***************************************************************************)
(* Blocks of the week that follow one another never touch on the screen    *)
(* unless the earlier is shorter than 35 minutes, whatever the events and  *)
(* the filter (WeekGrid.tsx, blockBox; calendar.ts, layoutLanes).          *)
(***************************************************************************)
THEOREM BoxesAlwaysApart == CalendarInit /\ [][VisitorNext]_visitorVars => []BoxesApart
BY VisitorOnlyLooks, EntriesInvariant, BoxesStayApart, PTL
=============================================================================
