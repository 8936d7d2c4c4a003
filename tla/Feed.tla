-------------------------------- MODULE Feed --------------------------------
(***************************************************************************)
(* The .ics feed and a phone subscribed to it.  The feed's ETag is the     *)
(* newest updated_at of its events, in seconds, and their number; the      *)
(* trigger of migration 00004 sets updated_at to the start of the          *)
(* transaction that writes the row.  Transactions overlap: one that began  *)
(* earlier may commit later.                                               *)
(***************************************************************************)
EXTENDS Naturals, FiniteSets, FiniteSetsExt, Tables

CONSTANTS
  Event,    \* ids
  Text,     \* what an entry shows: title, place, description, dates
  Editor,   \* transactions open at one time
  MaxTime   \* bound on the clock, in seconds

ASSUME FeedAssumption == IsFiniteSet(Event) /\ MaxTime \in Nat \ {0}

VARIABLES
  now,      \* the clock, in seconds
  events,   \* table events joined with its group
  open,     \* open transactions, by editor: now() is the second they began
  phone     \* the subscriber

vars == <<now, events, open, phone>>

Second == 1..MaxTime

\* public: the group is in this feed.  when: starts_at against the window from
\* 90 days ago to 365 days ahead.  off: cancelled_at, against the 90 days.
EventRow == [text : Text, public : BOOLEAN, when : {"ahead", "shown", "past"},
             published : BOOLEAN, off : {"no", "recent", "old"}, updated : Second]

ETag == [latest : 0..MaxTime, count : 0..Cardinality(Event)]
NoETag == [latest |-> 0, count |-> 0]

\* fetched: the second of the last download, 0 before the first.
\* excused: history, what the ETag is known to miss happened since.
Phone == [copy : UNION {[D -> [text : Text, cancelled : BOOLEAN]] : D \in SUBSET Event},
          etag : ETag, fetched : 0..MaxTime, excused : BOOLEAN]

(***************************************************************************)
(* Types of the table, the open transactions and the phone.                *)
(***************************************************************************)
FeedTypeOK ==
  /\ now \in Second
  /\ IsTable(events, Event, EventRow)
  /\ IsTable(open, Editor, Second)
  /\ phone \in Phone

FeedInit ==
  /\ now = 1 /\ events = NoRows /\ open = NoRows
  /\ phone = [copy |-> NoRows, etag |-> NoETag, fetched |-> 0, excused |-> FALSE]

-----------------------------------------------------------------------------
(* ListEventsForICS, and the ETag of its rows.                             *)

Listed == {e \in DOMAIN events : /\ events[e].published /\ events[e].public
                                 /\ events[e].off # "old" /\ events[e].when = "shown"}
Body == [e \in Listed |-> [text |-> events[e].text, cancelled |-> events[e].off # "no"]]

Latest == Max({0} \cup {events[e].updated : e \in Listed})

\* Mutant: the number of events is left out.
ETagOfLatest == [latest |-> Latest, count |-> 0]

CurrentETag == [latest |-> Latest, count |-> Cardinality(Listed)]

\* The dates an editor gives an event; it becomes past by itself.
Planned == {"ahead", "shown"}

-----------------------------------------------------------------------------
(* The admin's transactions.                                               *)

Tick ==
  /\ now < MaxTime /\ now' = now + 1
  /\ UNCHANGED <<events, open, phone>>

Begin(i) ==
  /\ i \notin DOMAIN open
  /\ open' = Put(open, i, now)
  /\ UNCHANGED <<now, events, phone>>

\* set_updated_at(), BEFORE UPDATE: now() is the transaction's start.
SetUpdatedAt(row, i) == [row EXCEPT !.updated = open[i]]

Write(e, row) == events' = Put(events, e, row)

\* INSERT ... DEFAULT now(), in a transaction of its own: always a draft.
CreateEvent(e, text, public, when) ==
  /\ e \notin DOMAIN events /\ e \notin DOMAIN phone.copy
  /\ Write(e, [text |-> text, public |-> public, when |-> when,
               published |-> FALSE, off |-> "no", updated |-> now])
  /\ UNCHANGED <<now, open, phone>>

UpdateEvent(i, e, text, public, when) ==
  /\ e \in DOMAIN events
  /\ Write(e, SetUpdatedAt([events[e] EXCEPT !.text = text, !.public = public,
                                             !.when = when], i))

PublishEvent(i, e) ==
  /\ e \in DOMAIN events /\ ~events[e].published
  /\ Write(e, SetUpdatedAt([events[e] EXCEPT !.published = TRUE, !.off = "no"], i))

UnpublishEvent(i, e) ==
  /\ e \in DOMAIN events /\ events[e].published
  /\ Write(e, SetUpdatedAt([events[e] EXCEPT !.published = FALSE], i))

\* With notify a published event stays, cancelled; any other row goes.
DeleteEvent(i, e) ==
  /\ e \in DOMAIN events
  /\ \/ /\ events[e].published
        /\ Write(e, SetUpdatedAt([events[e] EXCEPT !.off = "recent"], i))
     \/ events' = Without(events, e)

\* A commit.  One that began no later than the phone's last download is late.
Commit(i) ==
  /\ i \in DOMAIN open
  /\ \E e \in Event :
       \/ \E text \in Text, public \in BOOLEAN, when \in Planned :
            UpdateEvent(i, e, text, public, when)
       \/ PublishEvent(i, e) \/ UnpublishEvent(i, e) \/ DeleteEvent(i, e)
  /\ open' = Without(open, i)
  /\ phone' = [phone EXCEPT !.excused = @ \/ open[i] <= phone.fetched]
  /\ UNCHANGED now

\* The mutation is refused, fails or finds nothing to do.
Rollback(i) ==
  /\ i \in DOMAIN open
  /\ open' = Without(open, i)
  /\ UNCHANGED <<now, events, phone>>

-----------------------------------------------------------------------------
(* Days go by: the window moves over an event, and cancellations age.      *)

Grows(when) == IF when = "ahead" THEN "shown" ELSE "past"

WindowMoves(e) ==
  /\ e \in DOMAIN events
  /\ \/ /\ events[e].when # "past"
        /\ events' = [events EXCEPT ![e].when = Grows(@)]
     \/ /\ events[e].off = "recent"
        /\ events' = [events EXCEPT ![e].off = "old"]
  /\ phone' = [phone EXCEPT !.excused = TRUE]
  /\ UNCHANGED <<now, open>>

-----------------------------------------------------------------------------
(* The phone asks, with If-None-Match once it has an ETag.                 *)

Known == phone.fetched # 0 /\ phone.etag = CurrentETag

Download ==
  /\ ~Known
  /\ phone' = [copy |-> Body, etag |-> CurrentETag, fetched |-> now, excused |-> FALSE]
  /\ UNCHANGED <<now, events, open>>

NotModified ==
  /\ Known
  /\ UNCHANGED vars

FeedNext ==
  \/ Tick
  \/ \E i \in Editor : Begin(i) \/ Commit(i) \/ Rollback(i)
  \/ \E e \in Event, text \in Text, public \in BOOLEAN, when \in Planned :
       CreateEvent(e, text, public, when)
  \/ \E e \in Event : WindowMoves(e)
  \/ Download
  \/ NotModified

FeedSpec == FeedInit /\ [][FeedNext]_vars

-----------------------------------------------------------------------------
(***************************************************************************)
(* A 304 tells the truth: the phone's copy is the feed, unless since its   *)
(* download a transaction committed that began no later than it, or the    *)
(* window moved.  Edits, cancellations, deletions, changes of group and    *)
(* drafts that become public in later seconds all show.                    *)
(***************************************************************************)
NotModifiedIsTrue == Known /\ ~phone.excused => phone.copy = Body
=============================================================================
