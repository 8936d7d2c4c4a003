------------------------------ MODULE MCClock -------------------------------
(* Five days with a spring and an autumn change of the clock, in ticks of  *)
(* half an hour.  The worker schedules an announcement, or else the editor *)
(* is open on an event (whose minute is then an hour long).                *)
EXTENDS Schedule, EventTimes

PST == -16
PDT == -14

FiveDays == 0..239
SomeHours == {-1, 0, 1, 2, 3, 7, 22, 24}

Idle == saved = [start |-> 0, end |-> 0] /\ form = Closed /\ touched = FALSE /\ saves = MaxSaves
NoDeliveries == now = 0 /\ quietStart = 0 /\ quietEnd = 0
                /\ asked = [n \in 1..Recipients |-> Base * n] /\ processAt = asked

Events == {[start |-> t, end |-> t + d] : t \in FiveDays, d \in {-2, 0, 3, 4}}
AroundChanges == 50..58 \cup 146..154

ClockInit == (ScheduleInit /\ Idle) \/ (TimesInit /\ NoDeliveries)
ClockNext ==
  \/ ScheduleNext /\ UNCHANGED timesVars
  \/ TimesNext /\ UNCHANGED scheduleVars
ClockSpec == ClockInit /\ [][ClockNext]_<<scheduleVars, timesVars>>
=============================================================================
