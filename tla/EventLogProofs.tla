--------------------------- MODULE EventLogProofs ---------------------------
(* Proofs about EventLog, for every set of events and every outbox length. *)
EXTENDS EventLog, TLAPS

(***************************************************************************)
(* Appending a row changes no earlier row and adds one at the next id      *)
(* (insertOutbox).                                                         *)
(***************************************************************************)
LEMMA Appended ==
  ASSUME LogTypeOK, NEW e \in Event, NEW kind \in Kind, NEW data,
         PayloadOf(data) \in Payload, InsertOutbox(e, kind, data)
  PROVE  /\ outbox' \in Seq(OutboxRow)
         /\ Len(outbox') = Len(outbox) + 1
         /\ Len(outbox') <= MaxOutbox
         /\ DOMAIN outbox' = DOMAIN outbox \cup {Len(outbox) + 1}
         /\ \A i \in DOMAIN outbox : outbox'[i] = outbox[i]
         /\ outbox'[Len(outbox) + 1] = [event |-> e, kind |-> kind, payload |-> PayloadOf(data)]
<1> DEFINE new == [event |-> e, kind |-> kind, payload |-> PayloadOf(data)]
<1>1. new \in OutboxRow
  BY DEF OutboxRow
<1>2. outbox \in Seq(OutboxRow) /\ outbox' = Append(outbox, new) /\ Len(outbox) < MaxOutbox
  BY DEF LogTypeOK, InsertOutbox
<1> HIDE DEF new
<1>3. Len(outbox) \in Nat /\ Len(outbox') = Len(outbox) + 1 /\ outbox' \in Seq(OutboxRow)
  BY <1>1, <1>2
<1>4. DOMAIN outbox = 1..Len(outbox) /\ DOMAIN outbox' = 1..Len(outbox')
  BY <1>2, <1>3
<1>5. outbox'[Len(outbox) + 1] = new /\ \A i \in DOMAIN outbox : outbox'[i] = outbox[i]
  BY <1>1, <1>2, <1>3, <1>4
<1> QED
  BY <1>2, <1>3, <1>4, <1>5, EventLogConstants DEF new

(***************************************************************************)
(* The rows an action writes are well typed.                               *)
(***************************************************************************)
LEMMA RowsTyped ==
  /\ \A data \in Payload, p, c \in BOOLEAN : Row(p, c, data) \in EventRow
  /\ \A data \in EventRow, p, c \in BOOLEAN : Row(p, c, data) \in EventRow
  /\ \A data \in Payload : PayloadOf(data) \in Payload
  /\ \A data \in EventRow : PayloadOf(data) \in Payload
  BY DEF Row, EventRow, Payload, PayloadOf

(***************************************************************************)
(* Every step of the API keeps the types.                                  *)
(***************************************************************************)
LEMMA LogTypeStep == LogTypeOK /\ [LogNext]_logVars => LogTypeOK'
<1> SUFFICES ASSUME LogTypeOK, [LogNext]_logVars PROVE LogTypeOK'
  OBVIOUS
<1> USE DEF LogTypeOK, IsTable
<1>0. \A e \in DOMAIN events :
        /\ events[e] \in EventRow
        /\ events[e].published \in BOOLEAN /\ events[e].cancelled \in BOOLEAN
  BY DEF EventRow
<1>a. ASSUME NEW e \in DOMAIN events, NEW row \in EventRow,
             events' = [events EXCEPT ![e] = row], UNCHANGED deleted
      PROVE  IsTable(events, Event, EventRow)' /\ (DOMAIN events \cap deleted = {})'
  BY <1>a
<1>1. ASSUME NEW e \in Event, NEW data \in Payload, CreateEvent(e, data)
      PROVE  LogTypeOK'
  BY <1>1, RowsTyped DEF CreateEvent
<1>2. ASSUME NEW e \in Event, NEW data \in Payload, UpdateEvent(e, data)
      PROVE  LogTypeOK'
  <2>1. IsTable(events, Event, EventRow)' /\ (DOMAIN events \cap deleted = {})' /\ deleted' = deleted
    BY <1>2, <1>0, <1>a, RowsTyped DEF UpdateEvent
  <2>2. UNCHANGED outbox \/ InsertOutbox(e, "updated", data)
    BY <1>2 DEF UpdateEvent
  <2>3. outbox' \in Seq(OutboxRow) /\ Len(outbox') <= MaxOutbox
    BY <2>2, Appended, RowsTyped DEF Kind
  <2> QED
    BY <2>1, <2>3
<1>3. ASSUME NEW e \in Event, PublishEvent(e) PROVE LogTypeOK'
  <2>1. IsTable(events, Event, EventRow)' /\ (DOMAIN events \cap deleted = {})' /\ deleted' = deleted
    BY <1>3, <1>0, <1>a, RowsTyped DEF PublishEvent
  <2>2. InsertOutbox(e, "published", events[e]) /\ PayloadOf(events[e]) \in Payload
    BY <1>3, <1>0, RowsTyped DEF PublishEvent
  <2> QED
    BY <2>1, <2>2, Appended DEF Kind
<1>4. ASSUME NEW e \in Event, UnpublishEvent(e) PROVE LogTypeOK'
  <2>1. IsTable(events, Event, EventRow)' /\ (DOMAIN events \cap deleted = {})' /\ deleted' = deleted
    BY <1>4, <1>0, <1>a, RowsTyped DEF UnpublishEvent
  <2>2. InsertOutbox(e, "cancelled", events[e]) /\ PayloadOf(events[e]) \in Payload
    BY <1>4, <1>0, RowsTyped DEF UnpublishEvent
  <2> QED
    BY <2>1, <2>2, Appended DEF Kind
<1>5. ASSUME NEW e \in Event, NEW notify \in BOOLEAN, DeleteEvent(e, notify) PROVE LogTypeOK'
  <2>1. CASE events[e].published /\ notify
    <3>1. IsTable(events, Event, EventRow)' /\ (DOMAIN events \cap deleted = {})' /\ deleted' = deleted
      BY <1>5, <2>1, <1>0, <1>a, RowsTyped DEF DeleteEvent
    <3>2. InsertOutbox(e, "cancelled", events[e]) /\ PayloadOf(events[e]) \in Payload
      BY <1>5, <2>1, <1>0, RowsTyped DEF DeleteEvent
    <3> QED
      BY <3>1, <3>2, Appended DEF Kind
  <2>2. CASE ~(events[e].published /\ notify)
    BY <1>5, <2>2 DEF DeleteEvent
  <2> QED
    BY <2>1, <2>2
<1>6. CASE UNCHANGED logVars
  BY <1>6 DEF logVars
<1> QED
  BY <1>1, <1>2, <1>3, <1>4, <1>5, <1>6 DEF LogNext

(***************************************************************************)
(* The tables keep their types.                                            *)
(***************************************************************************)
THEOREM LogTypeCorrect == LogSpec => []LogTypeOK
<1>1. LogInit => LogTypeOK
  BY EventLogConstants DEF LogInit, LogTypeOK, IsTable
<1> QED
  BY <1>1, LogTypeStep, PTL DEF LogSpec

(***************************************************************************)
(* What one more row does to the order of the rows about each event: it is *)
(* the newest about its own event and follows the one that was newest.     *)
(***************************************************************************)
LEMMA AppendOrder ==
  ASSUME LogTypeOK, NEW e \in Event, NEW kind \in Kind, NEW data,
         PayloadOf(data) \in Payload, InsertOutbox(e, kind, data),
         NEW new \in Nat, new = Len(outbox) + 1
  PROVE  /\ Newest(new, e)'
         /\ \A i \in DOMAIN outbox' : Newest(i, e)' => i = new
         /\ \A d \in Event \ {e} : \A i \in DOMAIN outbox' :
              Newest(i, d)' => i \in DOMAIN outbox /\ Newest(i, d)
         /\ \A d \in Event \ {e} : \A i \in DOMAIN outbox : Newest(i, d) => Newest(i, d)'
         /\ \A i, j \in DOMAIN outbox : Follows(i, j)' <=> Follows(i, j)
         /\ \A i \in DOMAIN outbox : Follows(i, new)' <=> Newest(i, e)
         /\ \A j \in DOMAIN outbox' : ~Follows(new, j)'
<1>1. /\ DOMAIN outbox' = DOMAIN outbox \cup {new}
      /\ \A i \in DOMAIN outbox : outbox'[i] = outbox[i]
      /\ outbox'[new].event = e
  <2>1. /\ DOMAIN outbox' = DOMAIN outbox \cup {new}
        /\ \A i \in DOMAIN outbox : outbox'[i] = outbox[i]
        /\ outbox'[new] = [event |-> e, kind |-> kind, payload |-> PayloadOf(data)]
    BY Appended
  <2> QED
    BY <2>1
<1>2. DOMAIN outbox = 1..Len(outbox) /\ Len(outbox) \in Nat
  BY DEF LogTypeOK
<1>3. \A i \in DOMAIN outbox : i \in Nat /\ i < new
  BY <1>2
<1>4. Newest(new, e)' /\ \A i \in DOMAIN outbox' : Newest(i, e)' => i = new
  BY <1>1, <1>3 DEF Newest
<1>5. \A d \in Event \ {e} : \A i \in DOMAIN outbox' :
        Newest(i, d)' => i \in DOMAIN outbox /\ Newest(i, d)
  BY <1>1, <1>3 DEF Newest
<1>6. \A d \in Event \ {e} : \A i \in DOMAIN outbox : Newest(i, d) => Newest(i, d)'
  BY <1>1, <1>3 DEF Newest
<1>7. \A i, j \in DOMAIN outbox : Follows(i, j)' <=> Follows(i, j)
  BY <1>1, <1>3 DEF Follows
<1>8. \A i \in DOMAIN outbox : Follows(i, new)' <=> Newest(i, e)
  BY <1>1, <1>3 DEF Follows, Newest
<1>9. \A j \in DOMAIN outbox' : ~Follows(new, j)'
  BY <1>1, <1>3 DEF Follows
<1> QED
  BY <1>4, <1>5, <1>6, <1>7, <1>8, <1>9

(***************************************************************************)
(* The inductive invariant.  LogTellsTheTruth alone is not inductive for   *)
(* the story: a cancellation needs a row to cancel, which the published    *)
(* flag guarantees even on an event already cancelled.                     *)
(***************************************************************************)
PublishedHasARow ==
  \A e \in DOMAIN events : events[e].published => \E i \in DOMAIN outbox : Newest(i, e)

UnusedHasNoRow == \A i \in DOMAIN outbox : outbox[i].event \in DOMAIN events \cup deleted

LogInv == LogTypeOK /\ LogTellsTheTruth /\ StoryIsCoherent /\ PublishedHasARow /\ UnusedHasNoRow

(***************************************************************************)
(* An appended row makes the log agree with event e, and leaves every      *)
(* other event's part of the invariant alone.                              *)
(***************************************************************************)
LEMMA AnnounceKeepsInv ==
  ASSUME LogInv, NEW e \in DOMAIN events, NEW row \in EventRow, NEW kind \in Kind, NEW data,
         PayloadOf(data) \in Payload, InsertOutbox(e, kind, data),
         events' = [events EXCEPT ![e] = row], UNCHANGED deleted,
         OnAir(row) => kind \in Announcing /\ data.slot = row.slot,
         ~OnAir(row) => kind = "cancelled",
         kind = "published" => ~events[e].published,
         kind = "updated" => OnAir(events[e]),
         kind = "cancelled" => events[e].published
  PROVE  /\ LogTellsTheTruth' /\ StoryIsCoherent' /\ PublishedHasARow' /\ UnusedHasNoRow'
<1> USE DEF LogInv
<1>0. e \in Event /\ events[e] \in EventRow /\ DOMAIN events \subseteq Event
  BY DEF LogTypeOK, IsTable
<1>1. PICK new \in Nat : new = Len(outbox) + 1
  BY DEF LogTypeOK
<1>2. outbox'[new] = [event |-> e, kind |-> kind, payload |-> PayloadOf(data)]
  BY <1>0, <1>1, Appended
<1>3. /\ outbox'[new].event = e /\ outbox'[new].kind = kind
      /\ outbox'[new].payload.slot = data.slot
  BY <1>2 DEF PayloadOf
<1>4. /\ DOMAIN outbox' = DOMAIN outbox \cup {new}
      /\ \A i \in DOMAIN outbox : outbox'[i] = outbox[i]
  BY <1>0, <1>1, Appended
<1>5. /\ Newest(new, e)'
      /\ \A i \in DOMAIN outbox' : Newest(i, e)' => i = new
      /\ \A d \in Event \ {e} : \A i \in DOMAIN outbox' :
           Newest(i, d)' => i \in DOMAIN outbox /\ Newest(i, d)
      /\ \A d \in Event \ {e} : \A i \in DOMAIN outbox : Newest(i, d) => Newest(i, d)'
      /\ \A i, j \in DOMAIN outbox : Follows(i, j)' <=> Follows(i, j)
      /\ \A i \in DOMAIN outbox : Follows(i, new)' <=> Newest(i, e)
      /\ \A j \in DOMAIN outbox' : ~Follows(new, j)'
  BY <1>0, <1>1, AppendOrder
<1>6. /\ DOMAIN events' = DOMAIN events /\ events'[e] = row
      /\ \A d \in DOMAIN events \ {e} : events'[d] = events[d]
  BY <1>0
<1>7. LogTellsTheTruth'
  <2> SUFFICES ASSUME NEW d \in DOMAIN events'
               PROVE  /\ OnAir(events'[d]) =>
                           \E i \in DOMAIN outbox' : /\ Newest(i, d)'
                                                     /\ outbox'[i].kind \in Announcing
                                                     /\ outbox'[i].payload.slot = events'[d].slot
                      /\ ~OnAir(events'[d]) =>
                           \A i \in DOMAIN outbox' : Newest(i, d)' => outbox'[i].kind = "cancelled"
    BY DEF LogTellsTheTruth
  <2>1. CASE d = e
    BY <2>1, <1>3, <1>4, <1>5, <1>6
  <2>2. CASE d # e
    <3>1. d \in Event /\ d \in DOMAIN events /\ events'[d] = events[d]
      BY <2>2, <1>0, <1>6
    <3>2. OnAir(events[d]) => \E i \in DOMAIN outbox : /\ Newest(i, d)
                                                       /\ outbox[i].kind \in Announcing
                                                       /\ outbox[i].payload.slot = events[d].slot
      BY <3>1 DEF LogTellsTheTruth
    <3>3. ~OnAir(events[d]) => \A i \in DOMAIN outbox : Newest(i, d) => outbox[i].kind = "cancelled"
      BY <3>1 DEF LogTellsTheTruth
    <3> QED
      BY <2>2, <3>1, <3>2, <3>3, <1>4, <1>5
  <2> QED
    BY <2>1, <2>2
<1>8. events[e].published => \E i \in DOMAIN outbox : Newest(i, e)
  BY <1>0 DEF PublishedHasARow
<1>9. \A i \in DOMAIN outbox : Newest(i, e) =>
        /\ kind = "published" => outbox[i].kind = "cancelled"
        /\ kind = "updated" => outbox[i].kind \in Announcing
  <2>1. kind = "published" => ~OnAir(events[e])
    BY DEF OnAir
  <2>2. ASSUME kind = "updated", NEW i \in DOMAIN outbox, Newest(i, e)
        PROVE  outbox[i].kind \in Announcing
    <3>1. PICK m \in DOMAIN outbox : Newest(m, e) /\ outbox[m].kind \in Announcing
      BY <2>2, <1>0 DEF LogTellsTheTruth
    <3>2. m = i
      BY <2>2, <3>1, DOMAIN outbox = 1..Len(outbox), Len(outbox) \in Nat DEF Newest, LogTypeOK
    <3> QED
      BY <3>1, <3>2
  <2> QED
    BY <1>0, <2>1, <2>2 DEF LogTellsTheTruth
<1>10. StoryIsCoherent'
  <2>1. ASSUME NEW i \in DOMAIN outbox', NEW j \in DOMAIN outbox', Follows(i, j)'
        PROVE  /\ outbox'[i].kind = "cancelled" => outbox'[j].kind # "updated"
               /\ outbox'[i].kind \in Announcing => outbox'[j].kind # "published"
    <3>1. i \in DOMAIN outbox
      BY <2>1, <1>4, <1>5
    <3>2. CASE j = new
      BY <2>1, <3>1, <3>2, <1>3, <1>4, <1>5, <1>9 DEF Announcing
    <3>3. CASE j \in DOMAIN outbox
      BY <2>1, <3>1, <3>3, <1>4, <1>5 DEF StoryIsCoherent
    <3> QED
      BY <3>2, <3>3, <1>4
  <2>2. ASSUME NEW j \in DOMAIN outbox', outbox'[j].kind # "published"
        PROVE  \E i \in DOMAIN outbox' : Follows(i, j)'
    <3>1. CASE j = new
      <4>1. events[e].published
        BY <2>2, <3>1, <1>3 DEF Kind, OnAir
      <4> QED
        BY <3>1, <4>1, <1>4, <1>5, <1>8
    <3>2. CASE j \in DOMAIN outbox
      BY <2>2, <3>2, <1>4, <1>5 DEF StoryIsCoherent
    <3> QED
      BY <3>1, <3>2, <1>4
  <2> QED
    BY <2>1, <2>2 DEF StoryIsCoherent
<1>11. PublishedHasARow'
  BY <1>0, <1>4, <1>5, <1>6 DEF PublishedHasARow
<1>12. UnusedHasNoRow'
  BY <1>0, <1>3, <1>4, <1>6 DEF UnusedHasNoRow
<1> QED
  BY <1>7, <1>10, <1>11, <1>12

(***************************************************************************)
(* Steps that write no outbox row keep the rest of the invariant, as long  *)
(* as every surviving event is on air exactly as before.                   *)
(***************************************************************************)
LEMMA SilentKeepsInv ==
  ASSUME LogInv, UNCHANGED outbox,
         \A e \in DOMAIN events' :
           \/ e \in DOMAIN events /\ (OnAir(events'[e]) <=> OnAir(events[e]))
              /\ (events'[e].published <=> events[e].published)
              /\ (OnAir(events[e]) => events'[e].slot = events[e].slot)
           \/ e \notin DOMAIN events \cup deleted /\ ~events'[e].published,
         DOMAIN events \cup deleted \subseteq DOMAIN events' \cup deleted'
  PROVE  /\ LogTellsTheTruth' /\ StoryIsCoherent' /\ PublishedHasARow' /\ UnusedHasNoRow'
<1> USE DEF LogInv
<1>1. LogTellsTheTruth'
  BY DEF LogTellsTheTruth, UnusedHasNoRow, Newest, OnAir
<1>2. StoryIsCoherent'
  BY DEF StoryIsCoherent, Follows
<1>3. PublishedHasARow'
  BY DEF PublishedHasARow, Newest
<1>4. UnusedHasNoRow'
  BY DEF UnusedHasNoRow
<1> QED
  BY <1>1, <1>2, <1>3, <1>4

\* Each operation of the store keeps the log true and coherent.
LEMMA LogInvStep == LogInv /\ [LogNext]_logVars => LogInv'
<1> SUFFICES ASSUME LogInv, [LogNext]_logVars PROVE LogInv'
  OBVIOUS
<1>0. LogTypeOK'
  BY LogTypeStep DEF LogInv
<1>a. /\ DOMAIN events \subseteq Event
      /\ \A e \in DOMAIN events : events[e] \in EventRow /\ events[e].published \in BOOLEAN
                                  /\ events[e].cancelled \in BOOLEAN
  BY DEF LogInv, LogTypeOK, IsTable, EventRow
<1>1. ASSUME NEW e \in Event, NEW data \in Payload, CreateEvent(e, data) PROVE LogInv'
  <2>1. UNCHANGED <<deleted, outbox>> /\ DOMAIN events' = DOMAIN events \cup {e}
    BY <1>1 DEF CreateEvent
  <2>2. \A d \in DOMAIN events : d # e /\ events'[d] = events[d]
    BY <1>1 DEF CreateEvent
  <2>3. e \notin DOMAIN events \cup deleted /\ ~events'[e].published
    BY <1>1 DEF CreateEvent, Row
  <2> QED
    BY <1>0, <2>1, <2>2, <2>3, SilentKeepsInv DEF LogInv
<1>2. ASSUME NEW e \in Event, NEW data \in Payload, UpdateEvent(e, data) PROVE LogInv'
  <2> DEFINE row == Row(events[e].published, events[e].cancelled, data)
  <2>1. e \in DOMAIN events /\ events' = [events EXCEPT ![e] = row] /\ UNCHANGED deleted
    BY <1>2 DEF UpdateEvent
  <2>2. /\ row \in EventRow /\ row.slot = data.slot
        /\ row.published = events[e].published /\ row.cancelled = events[e].cancelled
    BY <1>a, <2>1, RowsTyped DEF Row
  <2> HIDE DEF row
  <2>3. OnAir(row) <=> OnAir(events[e])
    BY <2>2 DEF OnAir
  <2>4. CASE OnAir(events[e]) /\ BroadcastWorthy(events[e], data)
    <3>1. InsertOutbox(e, "updated", data) /\ PayloadOf(data) \in Payload
      BY <1>2, <2>4, RowsTyped DEF UpdateEvent
    <3>2. "updated" \in Kind /\ "updated" \in Announcing
      BY DEF Kind, Announcing
    <3> QED
      BY <1>0, <2>1, <2>2, <2>3, <2>4, <3>1, <3>2, AnnounceKeepsInv DEF LogInv
  <2>5. CASE ~(OnAir(events[e]) /\ BroadcastWorthy(events[e], data))
    <3>1. UNCHANGED outbox /\ (OnAir(events[e]) => row.slot = events[e].slot)
      BY <1>2, <2>2, <2>5 DEF UpdateEvent, BroadcastWorthy
    <3>2. DOMAIN events' = DOMAIN events /\ events'[e] = row
          /\ \A d \in DOMAIN events \ {e} : events'[d] = events[d]
      BY <2>1
    <3> QED
      BY <1>0, <2>1, <2>2, <2>3, <3>1, <3>2, SilentKeepsInv DEF LogInv
  <2> QED
    BY <2>4, <2>5
<1>3. ASSUME NEW e \in Event, PublishEvent(e) PROVE LogInv'
  <2> DEFINE row == Row(TRUE, FALSE, events[e])
  <2>1. /\ e \in DOMAIN events /\ ~events[e].published
        /\ events' = [events EXCEPT ![e] = row] /\ UNCHANGED deleted
        /\ InsertOutbox(e, "published", events[e])
    BY <1>3 DEF PublishEvent
  <2>2. /\ row \in EventRow /\ OnAir(row) /\ row.slot = events[e].slot
        /\ PayloadOf(events[e]) \in Payload
    BY <1>a, <2>1, RowsTyped DEF Row, OnAir
  <2>3. "published" \in Kind /\ "published" \in Announcing
    BY DEF Kind, Announcing
  <2> HIDE DEF row
  <2> QED
    BY <1>0, <2>1, <2>2, <2>3, AnnounceKeepsInv DEF LogInv
<1>4. ASSUME NEW e \in Event, UnpublishEvent(e) PROVE LogInv'
  <2> DEFINE row == Row(FALSE, events[e].cancelled, events[e])
  <2>1. /\ e \in DOMAIN events /\ events[e].published
        /\ events' = [events EXCEPT ![e] = row] /\ UNCHANGED deleted
        /\ InsertOutbox(e, "cancelled", events[e])
    BY <1>4 DEF UnpublishEvent
  <2>2. /\ row \in EventRow /\ ~OnAir(row) /\ PayloadOf(events[e]) \in Payload
    BY <1>a, <2>1, RowsTyped DEF Row, OnAir
  <2>3. "cancelled" \in Kind
    BY DEF Kind
  <2> HIDE DEF row
  <2> QED
    BY <1>0, <2>1, <2>2, <2>3, AnnounceKeepsInv DEF LogInv
<1>5. ASSUME NEW e \in Event, NEW notify \in BOOLEAN, DeleteEvent(e, notify) PROVE LogInv'
  <2>1. CASE events[e].published /\ notify
    <3> DEFINE row == Row(TRUE, TRUE, events[e])
    <3>1. /\ e \in DOMAIN events /\ events[e].published
          /\ events' = [events EXCEPT ![e] = row] /\ UNCHANGED deleted
          /\ InsertOutbox(e, "cancelled", events[e])
      BY <1>5, <2>1 DEF DeleteEvent
    <3>2. /\ row \in EventRow /\ ~OnAir(row) /\ PayloadOf(events[e]) \in Payload
      BY <1>a, <3>1, RowsTyped DEF Row, OnAir
    <3>3. "cancelled" \in Kind
      BY DEF Kind
    <3> HIDE DEF row
    <3> QED
      BY <1>0, <3>1, <3>2, <3>3, AnnounceKeepsInv DEF LogInv
  <2>2. CASE ~(events[e].published /\ notify)
    <3>1. /\ UNCHANGED outbox /\ deleted' = deleted \cup {e} /\ DOMAIN events' = DOMAIN events \ {e}
          /\ \A d \in DOMAIN events' : events'[d] = events[d]
      BY <1>5, <2>2 DEF DeleteEvent
    <3> QED
      BY <1>0, <3>1, SilentKeepsInv DEF LogInv
  <2> QED
    BY <2>1, <2>2
<1>6. CASE UNCHANGED logVars
  <2>1. UNCHANGED <<events, deleted, outbox>>
    BY <1>6 DEF logVars
  <2> QED
    BY <1>0, <2>1, SilentKeepsInv DEF LogInv
<1> QED
  BY <1>1, <1>2, <1>3, <1>4, <1>5, <1>6 DEF LogNext

\* An empty log is true and coherent.
LEMMA LogInvInit == LogInit => LogInv
<1> SUFFICES ASSUME LogInit PROVE LogInv
  OBVIOUS
<1>1. events = [e \in {} |-> {}] /\ deleted = {} /\ outbox = <<>>
  BY DEF LogInit
<1>2. DOMAIN events = {} /\ DOMAIN outbox = {} /\ Len(outbox) = 0
  BY <1>1
<1>3. LogTypeOK
  BY <1>1, <1>2, EventLogConstants DEF LogTypeOK, IsTable
<1>4. LogTellsTheTruth /\ StoryIsCoherent /\ PublishedHasARow /\ UnusedHasNoRow
  BY <1>2 DEF LogTellsTheTruth, StoryIsCoherent, PublishedHasARow, UnusedHasNoRow
<1> QED
  BY <1>3, <1>4 DEF LogInv

(***************************************************************************)
(* For every set of events and outbox length, the newest outbox row of     *)
(* each event agrees with the event (UpdateEvent, PublishEvent,            *)
(* UnpublishEvent, DeleteEvent).                                           *)
(***************************************************************************)
THEOREM LogIsTrue == LogSpec => []LogTellsTheTruth
<1>1. LogInv => LogTellsTheTruth
  BY DEF LogInv
<1> QED
  BY <1>1, LogInvInit, LogInvStep, PTL DEF LogSpec

(***************************************************************************)
(* The announcements of each event are a coherent story: published first   *)
(* or after a cancellation, corrected and cancelled only after that.       *)
(***************************************************************************)
THEOREM LogIsCoherent == LogSpec => []StoryIsCoherent
<1>1. LogInv => StoryIsCoherent
  BY DEF LogInv
<1> QED
  BY <1>1, LogInvInit, LogInvStep, PTL DEF LogSpec
=============================================================================
