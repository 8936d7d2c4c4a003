----------------------------- MODULE MCVisitor ------------------------------
(* Either the page is opened and its requests are under way, or it holds   *)
(* three events and the visitor looks around: on a phone, in January; or   *)
(* at a desk, in December, with the sheet of an event of its last cell.    *)
EXTENDS MCCalendar, Visitor

Opened == CalendarInit /\ VisitorAt(Groups, today, Closed) /\ width = Max(Widths) /\ taps = MaxTaps

January == D(2027, 1, 6)
Ninth == D(2027, 1, 9)
Loaded ==
  /\ server \in {f \in [Event -> Slot] : IsInjective(f)} /\ steady = Event
  /\ today \in Today /\ view = "mes"
  /\ fetched = {RangeOf(Keys(today, "mes")), RangeOf(Keys(January, "mes"))}
  /\ asked = {} /\ askedYears = {}
  /\ events = SetToBag({[event |-> e, slot |-> server[e]] : e \in Event})
  /\ seasons = SeasonsForYear(1) /\ of = 1
  /\ moves = MaxMoves - 1 /\ edits = MaxEdits

OnThePhone ==
  /\ Loaded /\ anchor = January
  /\ VisitorAt({}, today, Closed) /\ width = Min(Widths) /\ taps = 0

AtADesk ==
  /\ Loaded /\ anchor = today
  /\ \E e \in Event : VisitorAt({}, Ninth, e)
  /\ width = Max(Widths) /\ taps = MaxTaps - 1

VisitorSpec == (Opened \/ OnThePhone \/ AtADesk) /\ [][VisitorNext]_visitorVars
=============================================================================
