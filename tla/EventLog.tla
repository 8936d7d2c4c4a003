------------------------------ MODULE EventLog ------------------------------
(***************************************************************************)
(* The events table and the transactional outbox beside it, as written by  *)
(* the admin API (backend/internal/store/events_admin.go, events.go and    *)
(* outbox.go).                                                             *)
(*                                                                         *)
(* Every mutation below is one PostgreSQL transaction that first locks the *)
(* event's row (SELECT ... FOR UPDATE, or a conditional UPDATE), so one    *)
(* action stands for the whole transaction: the row change and the outbox  *)
(* row that announces it land together or not at all.                      *)
(*                                                                         *)
(* A table is a function whose DOMAIN is the set of ids that have a row.   *)
(* The outbox is append-only and its bigserial id is the position in the   *)
(* sequence: the row lock makes the ids of one event grow in commit order. *)
(***************************************************************************)
EXTENDS Naturals, Sequences, Tables

CONSTANTS
  Event,      \* ids (random UUIDs: a deleted id never comes back)
  Slot,       \* the broadcast-worthy data of an event: start, end and place
  Group,      \* parish groups
  MaxOutbox   \* bound: the rows the outbox may reach

ASSUME EventLogConstants == MaxOutbox \in Nat

VARIABLES
  events,     \* table: id -> [published, cancelled, slot, group]
  deleted,    \* ids whose row was hard-deleted
  outbox      \* rows [event, kind, payload]

logVars == <<events, deleted, outbox>>

Kind == {"published", "updated", "cancelled"}
Announcing == {"published", "updated"}

\* What an editor saves, and the snapshot the outbox row carries.
Payload == [slot : Slot, group : Group]
PayloadOf(e) == [slot |-> e.slot, group |-> e.group]

\* The columns that decide whether the parish is told, and what it is told.
EventRow == [published : BOOLEAN, cancelled : BOOLEAN, slot : Slot, group : Group]
Row(published, cancelled, data) ==
  [published |-> published, cancelled |-> cancelled, slot |-> data.slot, group |-> data.group]

OutboxRow == [event : Event, kind : Kind, payload : Payload]

LogTypeOK ==
  /\ IsTable(events, Event, EventRow)
  /\ deleted \subseteq Event
  /\ DOMAIN events \cap deleted = {}
  /\ outbox \in Seq(OutboxRow)
  /\ Len(outbox) <= MaxOutbox

InsertOutbox(e, kind, row) ==
  /\ Len(outbox) < MaxOutbox
  /\ outbox' = Append(outbox, [event |-> e, kind |-> kind, payload |-> PayloadOf(row)])

-----------------------------------------------------------------------------
LogInit ==
  /\ events = [e \in {} |-> {}]
  /\ deleted = {}
  /\ outbox = <<>>

\* A new event is a draft: nobody is told.
CreateEvent(e, data) ==
  /\ e \notin DOMAIN events \cup deleted
  /\ events' = [d \in DOMAIN events \cup {e} |-> IF d = e THEN Row(FALSE, FALSE, data) ELSE events[d]]
  /\ UNCHANGED <<deleted, outbox>>

OnAir(row) == row.published /\ ~row.cancelled

\* Only a change of time or place rings anyone's phone.
BroadcastWorthy(before, after) == before.slot # after.slot

\* Mutant: a change to a cancelled event is announced too.
UpdateEventWhenOff(e, data) ==
  /\ e \in DOMAIN events
  /\ events' = [events EXCEPT ![e] = Row(events[e].published, events[e].cancelled, data)]
  /\ IF events[e].published /\ BroadcastWorthy(events[e], data)
     THEN InsertOutbox(e, "updated", data)
     ELSE UNCHANGED outbox
  /\ UNCHANGED deleted

UpdateEvent(e, data) ==
  /\ e \in DOMAIN events
  /\ events' = [events EXCEPT ![e] = Row(events[e].published, events[e].cancelled, data)]
  /\ IF OnAir(events[e]) /\ BroadcastWorthy(events[e], data)
     THEN InsertOutbox(e, "updated", data)
     ELSE UNCHANGED outbox
  /\ UNCHANGED deleted

\* Mutant: an event already published is published again.
PublishEventAgain(e) ==
  /\ e \in DOMAIN events
  /\ events' = [events EXCEPT ![e] = Row(TRUE, FALSE, events[e])]
  /\ InsertOutbox(e, "published", events[e])
  /\ UNCHANGED deleted

\* Publishing again clears an earlier cancellation.
PublishEvent(e) ==
  /\ e \in DOMAIN events
  /\ ~events[e].published
  /\ events' = [events EXCEPT ![e] = Row(TRUE, FALSE, events[e])]
  /\ InsertOutbox(e, "published", events[e])
  /\ UNCHANGED deleted

UnpublishEvent(e) ==
  /\ e \in DOMAIN events
  /\ events[e].published
  /\ events' = [events EXCEPT ![e] = Row(FALSE, events[e].cancelled, events[e])]
  /\ InsertOutbox(e, "cancelled", events[e])
  /\ UNCHANGED deleted

\* Mutant: the flag is read the wrong way round.
DeleteEventUnheard(e, notify) ==
  /\ e \in DOMAIN events
  /\ IF events[e].published /\ ~notify
     THEN /\ events' = [events EXCEPT ![e] = Row(TRUE, TRUE, events[e])]
          /\ InsertOutbox(e, "cancelled", events[e])
          /\ UNCHANGED deleted
     ELSE /\ events' = [d \in DOMAIN events \ {e} |-> events[d]]
          /\ deleted' = deleted \cup {e}
          /\ UNCHANGED outbox

\* With notify, a published event stays as a soft cancellation; otherwise the
\* row goes, and nothing is announced.
DeleteEvent(e, notify) ==
  /\ e \in DOMAIN events
  /\ IF events[e].published /\ notify
     THEN /\ events' = [events EXCEPT ![e] = Row(TRUE, TRUE, events[e])]
          /\ InsertOutbox(e, "cancelled", events[e])
          /\ UNCHANGED deleted
     ELSE /\ events' = [d \in DOMAIN events \ {e} |-> events[d]]
          /\ deleted' = deleted \cup {e}
          /\ UNCHANGED outbox

LogNext ==
  \E e \in Event :
    \/ \E data \in Payload : CreateEvent(e, data) \/ UpdateEvent(e, data)
    \/ PublishEvent(e)
    \/ UnpublishEvent(e)
    \/ \E notify \in BOOLEAN : DeleteEvent(e, notify)

LogSpec == LogInit /\ [][LogNext]_logVars

-----------------------------------------------------------------------------
\* Row i is the newest the outbox holds about event e.
Newest(i, e) ==
  /\ outbox[i].event = e
  /\ \A j \in DOMAIN outbox : j > i => outbox[j].event # e

\* Row i comes right before row j among the rows about their event.
Follows(i, j) ==
  /\ i < j
  /\ outbox[i].event = outbox[j].event
  /\ \A m \in DOMAIN outbox : i < m /\ m < j => outbox[m].event # outbox[j].event

(***************************************************************************)
(* The newest outbox row about an event agrees with the event's row: it    *)
(* announces exactly when the event is public and not cancelled, and then  *)
(* it carries the current time and place.  This is what insertOutbox's     *)
(* comment promises: nothing is announced that did not happen, and nothing *)
(* that happened goes unannounced.                                         *)
(***************************************************************************)
LogTellsTheTruth ==
  \A e \in DOMAIN events :
    /\ OnAir(events[e]) =>
         \E i \in DOMAIN outbox : /\ Newest(i, e)
                                  /\ outbox[i].kind \in Announcing
                                  /\ outbox[i].payload.slot = events[e].slot
    /\ ~OnAir(events[e]) =>
         \A i \in DOMAIN outbox : Newest(i, e) => outbox[i].kind = "cancelled"

(***************************************************************************)
(* The announcements of one event read as a story: it is published only    *)
(* first or after a cancellation (PublishEvent: no double publication),    *)
(* and a correction or a cancellation always has something before it to    *)
(* correct or cancel.                                                      *)
(***************************************************************************)
StoryIsCoherent ==
  /\ \A i, j \in DOMAIN outbox :
       Follows(i, j) => (outbox[i].kind = "cancelled" => outbox[j].kind # "updated")
                        /\ (outbox[i].kind \in Announcing => outbox[j].kind # "published")
  /\ \A j \in DOMAIN outbox :
       outbox[j].kind # "published" => \E i \in DOMAIN outbox : Follows(i, j)
=============================================================================
