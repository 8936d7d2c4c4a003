------------------------------ MODULE Visitor -------------------------------
(***************************************************************************)
(* A visitor of the public calendar: what he picks, opens and filters      *)
(* (Calendar.tsx), and what the month grid, the agenda, the week and the   *)
(* panels beside them show of it.  The range, the view and what the page   *)
(* holds are those of Calendar.tla.                                        *)
(***************************************************************************)
EXTENDS Calendar

CONSTANTS
  Parroquial,  \* the last of the ranks, which count from 0
  Groups,      \* what /groups answers with
  Widths,      \* of the window
  Closed,      \* no sheet
  MaxTaps      \* bound

ASSUME VisitorAssumption ==
  /\ Parroquial \in Nat /\ Widths \subseteq Nat /\ MaxTaps \in Nat
  /\ \A s \in Slot : s.rank \in 0..Parroquial

VARIABLES
  sel,         \* the day picked
  dayIx,       \* the weekday of the phone's week
  sheet,       \* the event whose sheet is open
  filter,      \* groups to show, all when there is none
  groups,      \* the groups to filter by, once they have come
  width,
  taps

visitVars == <<sel, dayIx, sheet, filter, groups, width, taps>>
visitorVars == <<vars, visitVars>>

PHONE == 720
IsPhone == width < PHONE
Weekday(day) == day % 7
MonthOwnKeys(day) == FirstOf[Month(day)]..(FirstOf[Month(day) + 1] - 1)

-----------------------------------------------------------------------------
(* One day, as the views see it.                                           *)

Filtered(day) == {x \in ItemsFor(day) : filter = {} \/ x.group \in filter}

\* Mutant: by time alone.
ByRankByTime(items) == {s \in SetToSeqs(items) : \A i, j \in DOMAIN s : i < j => s[i].min <= s[j].min}

\* Rank first, then time; ties keep the order of the answers.
ByRank(items) ==
  {s \in SetToSeqs(items) :
     \A i, j \in DOMAIN s : i < j => \/ s[i].rank < s[j].rank
                                     \/ s[i].rank = s[j].rank /\ s[i].min <= s[j].min}

\* Group activities never claim the day's headline.
Liturgical(s) == {i \in DOMAIN s : s[i].rank # Parroquial}
CelebrationOf(s) == IF Liturgical(s) = {} THEN {} ELSE {s[Min(Liturgical(s))]}

\* The two lines of a cell of the month grid, and how many it does not show.
Cell(s) ==
  LET celeb == CelebrationOf(s)
      chips == {i \in DOMAIN s : s[i] \notin celeb}
      room == IF celeb = {} THEN 2 ELSE 1
      shown == {i \in chips : Cardinality({j \in chips : j < i}) < room}
  IN  [celeb |-> celeb, shown |-> {s[i] : i \in shown}, extra |-> Cardinality(chips) - Cardinality(shown)]

\* The phone's month: its own days that have something on them.
AgendaDays == {day \in MonthOwnKeys(anchor) : Filtered(day) # {}}

-----------------------------------------------------------------------------
(* The hour column of the week: 54 pixels an hour from five o'clock.       *)

H0 == 5
ROW == 54
Round(tenths) == (tenths + 5) \div 10
Pixels(minutes) == Round(minutes * (ROW \div 6))

\* Mutant: blocks fill their time to the last pixel.
BlockBoxFull(b) == [top |-> Pixels(b.item.min - 60 * H0), height |-> Max({28, Pixels(b.item.dur)})]

BlockBox(b) == [top |-> Pixels(b.item.min - 60 * H0), height |-> Max({28, Pixels(b.item.dur) - 3})]

SideBySide(a, b) == a.lane * b.lanes <= (b.lane - 1) * a.lanes \/ b.lane * a.lanes <= (a.lane - 1) * b.lanes

\* The one day the phone's week shows.
DayShown == Sunday(anchor) + dayIx

-----------------------------------------------------------------------------
(* What the visitor does.                                                  *)

\* The sheet is there for an event the page holds, whatever the filter.
SheetEvent == {x \in DOMAIN events : x.event = sheet}

VisitGo(dir) ==
  /\ Go(dir)
  /\ sel' = IF view = "semana" THEN Sunday(anchor') + dayIx ELSE sel
  /\ UNCHANGED <<dayIx, sheet, filter, groups, width, taps>>

VisitToday ==
  /\ GoToday
  /\ sel' = today /\ dayIx' = Weekday(today)
  /\ UNCHANGED <<sheet, filter, groups, width, taps>>

VisitView(v) ==
  /\ SetView(v)
  /\ sheet' = IF v = "mes" THEN Closed ELSE sheet
  /\ UNCHANGED <<sel, dayIx, filter, groups, width, taps>>

Tap == taps < MaxTaps /\ taps' = taps + 1
OnScreen == Tap /\ UNCHANGED vars

Offered(days) == {x.event : x \in UNION {Filtered(day) : day \in days}}

\* A cell of the month grid.
PickCell ==
  /\ view = "mes" /\ ~IsPhone
  /\ \E day \in MonthCellKeys(anchor) : day # sel /\ sel' = day
  /\ OnScreen /\ UNCHANGED <<dayIx, sheet, filter, groups, width>>

\* A day of the phone's week.
PickWeekday ==
  /\ view = "semana" /\ IsPhone
  /\ \E i \in 0..6 : dayIx' = i /\ sel' = Sunday(anchor) + i
  /\ OnScreen /\ UNCHANGED <<sheet, filter, groups, width>>

\* An event of the week, of the phone's day, or of the day panel.
OpenSheet ==
  /\ \E e \in Offered(IF view = "mes" THEN {sel} ELSE IF IsPhone THEN {DayShown} ELSE WeekKeys(anchor)) :
       e # sheet /\ sheet' = e
  /\ OnScreen /\ UNCHANGED <<sel, dayIx, filter, groups, width>>

\* An event of the agenda, which opens a week: the anchor's.
OpenFromAgenda ==
  /\ view = "mes" /\ IsPhone /\ Tap
  /\ \E day \in AgendaDays : \E x \in Filtered(day) :
       sheet' = x.event /\ sel' = day /\ dayIx' = Weekday(day)
  /\ Show(anchor, "semana")
  /\ UNCHANGED <<filter, groups, width>>

CloseSheet ==
  /\ sheet # Closed /\ SheetEvent # {} /\ sheet' = Closed
  /\ OnScreen /\ UNCHANGED <<sel, dayIx, filter, groups, width>>

\* Hoy, where the view is today's already.
StayToday ==
  /\ anchor = today /\ <<sel, dayIx>> # <<today, Weekday(today)>>
  /\ sel' = today /\ dayIx' = Weekday(today)
  /\ OnScreen /\ UNCHANGED <<sheet, filter, groups, width>>

\* Mes, where one is in the month already.
StayInMonth ==
  /\ view = "mes" /\ sheet # Closed /\ sheet' = Closed
  /\ OnScreen /\ UNCHANGED <<sel, dayIx, filter, groups, width>>

ToggleFilter ==
  /\ \E g \in groups : filter' = IF g \in filter THEN filter \ {g} ELSE filter \cup {g}
  /\ OnScreen /\ UNCHANGED <<sel, dayIx, sheet, groups, width>>

Resize ==
  /\ \E w \in Widths : w # width /\ width' = w
  /\ OnScreen /\ UNCHANGED <<sel, dayIx, sheet, filter, groups>>

\* The groups are asked for once; without them there is nothing to filter by.
ArriveGroups ==
  /\ groups = {} /\ groups' = Groups
  /\ UNCHANGED <<vars, sel, dayIx, sheet, filter, width, taps>>

\* come: the groups that have come by then; day, open: what he has picked.
VisitorAt(come, day, open) ==
  /\ sel = day /\ dayIx = Weekday(today)
  /\ sheet = open /\ filter = {} /\ groups = come
  /\ width \in Widths

VisitorNext ==
  \/ \E dir \in {-1, 1} : VisitGo(dir)
  \/ VisitToday
  \/ \E v \in {"mes", "semana"} : VisitView(v)
  \/ PickCell \/ PickWeekday \/ OpenSheet \/ OpenFromAgenda \/ CloseSheet
  \/ StayToday \/ StayInMonth \/ ToggleFilter \/ Resize \/ ArriveGroups
  \/ Exchange /\ UNCHANGED visitVars

-----------------------------------------------------------------------------
(***************************************************************************)
(* A cell of the month grid accounts for everything on its day, in no more *)
(* than two lines, and what "+n más" leaves out never outranks what it     *)
(* shows: a solemnity is not hidden behind a meeting.                      *)
(***************************************************************************)
CellsHideTheLeast ==
  \A day \in {x.slot.day : x \in DOMAIN events} : \A s \in ByRank(Filtered(day)) :
    LET cell == Cell(s)
        told == cell.celeb \cup cell.shown
    IN  /\ Cardinality(told) + cell.extra = Cardinality(Filtered(day))
        /\ Cardinality(told) <= 2
        /\ \A hidden \in Filtered(day) \ told, x \in told : x.rank <= hidden.rank

(***************************************************************************)
(* Blocks of the week that follow one another never touch on the screen,   *)
(* rounding included, unless the earlier is shorter than the 35 minutes    *)
(* its least height stands for.                                            *)
(***************************************************************************)
BoxesApart ==
  \A day \in {x.slot.day : x \in DOMAIN events} : \A byTime \in ByTime(Filtered(day)) :
    LET blocks == LayoutLanes(byTime)
    IN  \A a, b \in blocks :
          a # b /\ a.item.min <= b.item.min /\ a.item.dur >= 35 /\ ~SideBySide(a, b)
          => BlockBox(a).top + BlockBox(a).height < BlockBox(b).top
=============================================================================
