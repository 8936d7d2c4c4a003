------------------------------ MODULE MCPanel -------------------------------
(* Mornings at the parish: an event to publish, a message that did not get *)
(* through, a team to look after, a session to begin.  A scene says how    *)
(* much she will press and how much the network will lose.                 *)
EXTENDS Panel, TLC

CONSTANTS e1, s1, s2, c1, p1, p2, g1

Keys == Channel \X (1..MaxOutbox)
TwoMonths == s1 :> 1 @@ s2 :> 2

Row1(published) == [published |-> published, cancelled |-> FALSE, slot |-> s1, group |-> g1]
Told == <<[event |-> e1, kind |-> "published", payload |-> [slot |-> s1, group |-> g1]]>>
Morning(published, state, open) ==
  [events |-> e1 :> Row1(published),
   outbox |-> IF published THEN Told ELSE <<>>,
   rows |-> IF published THEN <<c1, 1>> :> state ELSE NoRows,
   channels |-> c1 :> [group |-> Parish, active |-> TRUE],
   team |-> p1 :> [role |-> "parroco", active |-> TRUE],
   session |-> open,
   others |-> MaxOthers]
Silent(office) == [office EXCEPT !.channels[c1].active = FALSE]
NewYear == [Silent(Morning(FALSE, "sent", TRUE)) EXCEPT !.events = NoRows]
Two(office) == [office EXCEPT !.team = @ @@ p2 :> [role |-> "secretaria", active |-> TRUE]]

Busier(office) == [office EXCEPT !.others = 0]

Scene(page0, office, press, slip) == [page |-> page0, office |-> office, presses |-> press, slips |-> slip]

Draft == Morning(FALSE, "sent", TRUE)
Typed == [EditorPage(Nothing, FALSE) EXCEPT !.form = [slot |-> s2, group |-> g1, title |-> TRUE]]

AtTheEditor == {Scene(EditorPage(e1, FALSE), Silent(Draft), 2, 0),
                Scene(EditorPage(e1, TRUE), Silent(Morning(TRUE, "sent", TRUE)), 2, 0),
                Scene(Typed, NewYear, 2, 1)}
AtTheList == {Scene(ListPage(ThisMonth, Nothing), Busier(Silent(Draft)), 1, 1)}
AtTheLog == {Scene(LogPage, Morning(TRUE, "failed", TRUE), 3, 0),
             Scene(LogPage, Busier(Morning(TRUE, "queued", TRUE)), 0, 1)}
AtTheTeam == {Scene(TeamPage, Two(Draft), 3, 0), Scene(TeamPage, Busier(Two(Draft)), 1, 1)}
AtTheDoor == {Scene(LoginPage, Morning(FALSE, "sent", FALSE), 3, 0)}
Openings == AtTheEditor \cup AtTheList \cup AtTheLog \cup AtTheTeam \cup AtTheDoor
=============================================================================
