------------------------------ MODULE Difusion ------------------------------
(***************************************************************************)
(* The difusión engine: the relay, the fanout and deliver handlers of the  *)
(* worker (backend/internal/difusion), the broadcasts table they share     *)
(* with the panel's retry button (store/broadcasts.go,                     *)
(* http/admin_broadcasts.go), and the events, outbox and channels the API  *)
(* keeps writing meanwhile.                                                *)
(*                                                                         *)
(* Each database statement, each enqueue and each send is a step of its    *)
(* own: whatever another process does may fall between two of them.        *)
(* asynq is external: a task in the queue may be taken at any later time   *)
(* and in any order (delays, backoff and quiet hours only postpone it); a  *)
(* handler that returns an error, or whose worker dies, has its task       *)
(* retried until its budget is spent and then archived.                    *)
(***************************************************************************)
EXTENDS EventLog, FiniteSets

CONSTANTS
  Channel,          \* ids (random UUIDs)
  Opening,          \* the channels the panel saved before the first event
  ChannelKind,      \* {"whatsapp", "email"} or a part of it
  Parish,           \* the group_id NULL of a channel addressed to everyone
  ChannelEdits,     \* bound: the rows the panel saves for a channel
  Relay,            \* relay loops, one per worker process
  RelayBatch,       \* relayBatch
  FanTask, DelTask, \* asynq task ids: bounds the tasks alive at one time
  FanoutMaxRetry,   \* asynq's default budget, 25 in production
  DeliverMaxRetry,  \* 5 in production
  MailConcurrency,  \* mailConcurrency (mail and fanout share one server)
  WAConcurrency,    \* waConcurrency
  MaxFaults,        \* bound: failures of the database, the broker or a process
  MaxManual         \* bound: presses of the panel's retry button

ASSUME DifusionConstants ==
  /\ {RelayBatch, FanoutMaxRetry, DeliverMaxRetry, MailConcurrency,
      WAConcurrency, MaxFaults, MaxManual} \subseteq Nat
  /\ Parish \notin Group
  /\ Opening \subseteq Channel
  /\ ChannelEdits \subseteq [kind : ChannelKind, group : Group \cup {Parish}, active : BOOLEAN]

VARIABLES
  channels,    \* table: id -> [kind, group, active]
  removed,     \* channel ids whose row was deleted
  processed,   \* outbox ids with processed_at set
  batch, left, \* per relay: rows its open transaction locks, rows still to enqueue
  fan,         \* fanout tasks in asynq: id -> task
  broadcasts,  \* table: <<channel, outbox id>>, the dedupe key -> state
  del,         \* deliver tasks in asynq: id -> task
  retrying,    \* manual retries that reset the row and have not enqueued yet
  heard,       \* what channels received: how often each announcement
  fanned,      \* history: outbox rows whose fanout ran to its end
  excused,     \* history: keys retried by hand, or sent and not recorded as sent
  faults, manual \* how much of MaxFaults and MaxManual is used up

taskVars == <<fan, fanned>>
relayVars == <<processed, batch, left>>
delVars == <<broadcasts, del, heard, excused>>
retryVars == <<retrying, manual>>
channelVars == <<channels, removed>>
vars == <<logVars, channelVars, relayVars, taskVars, delVars, retryVars, faults>>

RowId == 1..MaxOutbox

\* The dedupe key event:channel:kind:outboxID; the row gives event and kind.
Key == Channel \X RowId
EventOf(k) == outbox[k[2]].event

ChannelRow == [kind : ChannelKind, group : Group \cup {Parish}, active : BOOLEAN]
State == {"queued", "sent", "failed", "dead"}
Queue == {"wa", "mail"}
QueueFor(kind) == IF kind = "whatsapp" THEN "wa" ELSE "mail"

\* todo: recipients the loop has not reached, with the kind read for each.
\* owed: the recipient recorded and not yet queued (at most one).
FanoutTask == [row : RowId, state : {"pending", "running", "archived"},
               retried : 0..FanoutMaxRetry,
               todo : SUBSET (Channel \X ChannelKind),
               owed : SUBSET (Channel \X ChannelKind)]
Waiting(row, retried) ==
  [row |-> row, state |-> "pending", retried |-> retried, todo |-> {}, owed |-> {}]
Looping(f, todo, owed) ==
  [row |-> f.row, state |-> "running", retried |-> f.retried, todo |-> todo, owed |-> owed]
Shelved(f) ==
  [row |-> f.row, state |-> "archived", retried |-> f.retried, todo |-> {}, owed |-> {}]

\* fetched: the row was read and needs sending; accepted, refused: the
\* sender's answer, not recorded yet; skipped: the channel is switched off.
DeliverTask == [key : Key, queue : Queue, retried : 0..DeliverMaxRetry,
                state : {"pending", "fetched", "accepted", "refused", "skipped", "archived"}]
AtWork == {"fetched", "accepted", "refused", "skipped"}
Delivery(key, queue, retried, state) ==
  [key |-> key, queue |-> queue, retried |-> retried, state |-> state]
Move(d, state) == Delivery(d.key, d.queue, d.retried, state)

DifTypeOK ==
  /\ LogTypeOK
  /\ IsTable(channels, Channel, ChannelRow)
  /\ removed \subseteq Channel
  /\ processed \subseteq RowId
  /\ batch \in [Relay -> SUBSET RowId]
  /\ left \in [Relay -> SUBSET RowId]
  /\ IsTable(fan, FanTask, FanoutTask)
  /\ IsTable(broadcasts, Key, State)
  /\ IsTable(del, DelTask, DeliverTask)
  /\ retrying \subseteq Key \X Queue
  /\ heard \in [Key -> Nat]
  /\ fanned \subseteq RowId
  /\ excused \subseteq Key
  /\ faults \in 0..MaxFaults
  /\ manual \in 0..MaxManual

\* One more failure of the environment.
Fault == faults < MaxFaults /\ faults' = faults + 1

DifInit ==
  /\ LogInit
  /\ channels \in [Opening -> {row \in ChannelEdits : row.active}]
  /\ removed = {} /\ processed = {} /\ fanned = {} /\ excused = {} /\ retrying = {}
  /\ batch = [w \in Relay |-> {}] /\ left = [w \in Relay |-> {}]
  /\ fan = [t \in {} |-> {}] /\ del = [t \in {} |-> {}] /\ broadcasts = [k \in {} |-> {}]
  /\ heard = [k \in Key |-> 0]
  /\ faults = 0 /\ manual = 0

-----------------------------------------------------------------------------
(* The API: the mutations of EventLog, and the channels.                   *)

\* broadcasts.event_id is ON DELETE CASCADE; outbox rows have no foreign key.
EditEvents ==
  /\ LogNext
  /\ LET kept == {k \in DOMAIN broadcasts : EventOf(k) \in DOMAIN events'}
     IN  broadcasts' = [k \in kept |-> broadcasts[k]]
  /\ UNCHANGED <<channelVars, relayVars, taskVars, del, heard, excused, retryVars, faults>>

CreateChannel(c, row) ==
  /\ c \notin DOMAIN channels \cup removed
  /\ channels' = Put(channels, c, row)
  /\ UNCHANGED removed

UpdateChannel(c, row) ==
  /\ c \in DOMAIN channels
  /\ channels' = [channels EXCEPT ![c] = row]
  /\ UNCHANGED removed

\* broadcasts.channel_id has no cascade: a channel with history stays.
DeleteChannel(c) ==
  /\ c \in DOMAIN channels
  /\ \A k \in DOMAIN broadcasts : k[1] # c
  /\ channels' = Without(channels, c)
  /\ removed' = removed \cup {c}

EditChannels ==
  /\ \E c \in Channel : \/ \E row \in ChannelEdits : CreateChannel(c, row) \/ UpdateChannel(c, row)
                        \/ DeleteChannel(c)
  /\ UNCHANGED <<logVars, relayVars, taskVars, delVars, retryVars, faults>>

-----------------------------------------------------------------------------
(* The relay: one transaction claims a batch, enqueues it, marks it.       *)

\* Mutant: a correction counts as newer than itself.
SupersededByItself(r) ==
  /\ outbox[r].kind = "updated"
  /\ \E q \in DOMAIN outbox : /\ q >= r
                              /\ outbox[q].event = outbox[r].event
                              /\ outbox[q].kind = "updated"

Superseded(r) ==  \* HasNewerUpdated
  /\ outbox[r].kind = "updated"
  /\ \E q \in DOMAIN outbox : /\ q > r
                              /\ outbox[q].event = outbox[r].event
                              /\ outbox[q].kind = "updated"

\* ORDER BY id LIMIT relayBatch FOR UPDATE SKIP LOCKED
Claimable == (DOMAIN outbox \ processed) \ UNION {batch[v] : v \in Relay}
\* Mutant: the limit is off by one.
OldestButOne(rows) == {r \in rows : Cardinality({q \in rows : q <= r}) < RelayBatch}

Oldest(rows) == {r \in rows : Cardinality({q \in rows : q < r}) < RelayBatch}

RelayClaim(w) ==
  /\ batch[w] = {}
  /\ Oldest(Claimable) # {}
  /\ batch' = [batch EXCEPT ![w] = Oldest(Claimable)]
  /\ left' = [left EXCEPT ![w] = Oldest(Claimable)]
  /\ UNCHANGED <<logVars, channelVars, processed, taskVars, delVars, retryVars, faults>>

\* The row's fanout is enqueued before the mark commits.
RelayRow(w) ==
  \E r \in left[w] :
    /\ \A q \in left[w] : r <= q
    /\ left' = [left EXCEPT ![w] = @ \ {r}]
    /\ IF Superseded(r)
       THEN UNCHANGED fan
       ELSE \E t \in FanTask \ DOMAIN fan :
              fan' = Put(fan, t, Waiting(r, 0))
    /\ UNCHANGED <<logVars, channelVars, processed, batch, fanned, delVars, retryVars, faults>>

\* Mutant: the mark is committed before the rows are enqueued.
RelayCommitFirst(w) ==
  /\ batch[w] # {}
  /\ processed' = processed \cup batch[w]
  /\ batch' = [batch EXCEPT ![w] = {}]
  /\ left' = [left EXCEPT ![w] = {}]
  /\ UNCHANGED <<logVars, channelVars, taskVars, delVars, retryVars, faults>>

RelayCommit(w) ==
  /\ batch[w] # {} /\ left[w] = {}
  /\ processed' = processed \cup batch[w]
  /\ batch' = [batch EXCEPT ![w] = {}]
  /\ UNCHANGED <<logVars, channelVars, left, taskVars, delVars, retryVars, faults>>

\* A failed query, enqueue or commit, or the end of the process: the
\* transaction rolls back, what was enqueued stays enqueued.
RelayAbort(w) ==
  /\ batch[w] # {}
  /\ Fault
  /\ batch' = [batch EXCEPT ![w] = {}]
  /\ left' = [left EXCEPT ![w] = {}]
  /\ UNCHANGED <<logVars, channelVars, processed, taskVars, delVars, retryVars>>

-----------------------------------------------------------------------------
(* The fanout handler.                                                     *)

Idle(queue) ==  \* a worker goroutine of the queue's server is free
  LET busyFan == {t \in DOMAIN fan : fan[t].state = "running"}
      busyDel == {t \in DOMAIN del : del[t].state \in AtWork /\ del[t].queue = queue}
  IN  IF queue = "wa" THEN Cardinality(busyDel) < WAConcurrency
      ELSE Cardinality(busyFan) + Cardinality(busyDel) < MailConcurrency

\* asynq's answer to an error: another try, or the archive.
RetryFan(t) ==
  fan' = [fan EXCEPT ![t] = IF fan[t].retried < FanoutMaxRetry
                            THEN Waiting(fan[t].row, fan[t].retried + 1)
                            ELSE Shelved(fan[t])]

\* The handler returned nil: the task is gone, unless asynq never hears of it.
EndFan(t) ==
  /\ fanned' = fanned \cup {fan[t].row}
  /\ \/ fan' = Without(fan, t) /\ UNCHANGED faults
     \/ RetryFan(t) /\ Fault

\* Mutant: a queued announcement counts as told.
ToldSoon(e) == {c \in Channel : \E k \in DOMAIN broadcasts :
                  k[1] = c /\ EventOf(k) = e /\ outbox[k[2]].kind \in Announcing}

\* BroadcastRecipients: the channels with a delivered announcement of event e.
Told(e) == {c \in Channel : \E k \in DOMAIN broadcasts :
              /\ k[1] = c /\ EventOf(k) = e
              /\ broadcasts[k] = "sent" /\ outbox[k[2]].kind \in Announcing}

\* Mutant: every active channel is addressed.
ActiveForAnyone(group) == {c \in DOMAIN channels : channels[c].active}

\* ActiveChannelsForGroup
ActiveFor(group) == {c \in DOMAIN channels : /\ channels[c].active
                                             /\ channels[c].group \in {group, Parish}}

\* recipients, each with its kind
Recipients(r) ==
  LET ids == IF outbox[r].kind = "cancelled"
             THEN Told(outbox[r].event) \cap DOMAIN channels
             ELSE ActiveFor(outbox[r].payload.group)
  IN  {<<c, channels[c].kind>> : c \in ids}

\* Mutant: nothing is announced about an event that is off, not even that.
FanStartOnAir(t) ==
  /\ t \in DOMAIN fan /\ fan[t].state = "pending" /\ Idle("mail")
  /\ LET e == outbox[fan[t].row].event
     IN  IF e \notin DOMAIN events \/ (e \in DOMAIN events /\ ~OnAir(events[e]))
         THEN EndFan(t)
         ELSE /\ fan' = [fan EXCEPT ![t] = Looping(fan[t], Recipients(fan[t].row), {})]
              /\ UNCHANGED <<fanned, faults>>
  /\ UNCHANGED <<logVars, channelVars, relayVars, delVars, retryVars>>

FanStart(t) ==
  /\ t \in DOMAIN fan /\ fan[t].state = "pending" /\ Idle("mail")
  /\ IF Superseded(fan[t].row)
     THEN EndFan(t)
     ELSE /\ fan' = [fan EXCEPT ![t] = Looping(fan[t], Recipients(fan[t].row), {})]
          /\ UNCHANGED <<fanned, faults>>
  /\ UNCHANGED <<logVars, channelVars, relayVars, delVars, retryVars>>

\* Mutant: a row that is already there is queued again.
FanRecordAgain(t) ==
  /\ t \in DOMAIN fan /\ fan[t].state = "running" /\ fan[t].owed = {}
  /\ \E to \in fan[t].todo :
       /\ EventOf(<<to[1], fan[t].row>>) \in DOMAIN events /\ to[1] \in DOMAIN channels
       /\ broadcasts' = Put(broadcasts, <<to[1], fan[t].row>>, "queued")
       /\ fan' = [fan EXCEPT ![t] = Looping(fan[t], fan[t].todo \ {to}, {to})]
  /\ UNCHANGED <<logVars, channelVars, relayVars, fanned, del, heard, excused, retryVars, faults>>

\* CreateBroadcast: the dedupe key absorbs a replay; the foreign keys refuse
\* an event or a channel deleted since, and the handler returns that error.
FanRecord(t) ==
  /\ t \in DOMAIN fan /\ fan[t].state = "running" /\ fan[t].owed = {}
  /\ \E to \in fan[t].todo :
       LET k == <<to[1], fan[t].row>>
           rest == fan[t].todo \ {to}
       IN  \/ /\ k \in DOMAIN broadcasts
              /\ fan' = [fan EXCEPT ![t] = Looping(fan[t], rest, {})] /\ UNCHANGED broadcasts
           \/ /\ k \notin DOMAIN broadcasts
              /\ EventOf(k) \in DOMAIN events /\ to[1] \in DOMAIN channels
              /\ broadcasts' = Put(broadcasts, k, "queued")
              /\ fan' = [fan EXCEPT ![t] = Looping(fan[t], rest, {to})]
           \/ /\ k \notin DOMAIN broadcasts
              /\ EventOf(k) \notin DOMAIN events \/ to[1] \notin DOMAIN channels
              /\ RetryFan(t) /\ UNCHANGED broadcasts
  /\ UNCHANGED <<logVars, channelVars, relayVars, fanned, del, heard, excused, retryVars, faults>>

EnqueueDelivery(k, queue) ==
  \E t \in DelTask \ DOMAIN del :
    del' = Put(del, t, Delivery(k, queue, 0, "pending"))

FanEnqueue(t) ==
  /\ t \in DOMAIN fan
  /\ \E to \in fan[t].owed : EnqueueDelivery(<<to[1], fan[t].row>>, QueueFor(to[2]))
  /\ fan' = [fan EXCEPT ![t] = Looping(fan[t], fan[t].todo, {})]
  /\ UNCHANGED <<logVars, channelVars, relayVars, fanned, broadcasts, heard, excused, retryVars, faults>>

FanFinish(t) ==
  /\ t \in DOMAIN fan /\ fan[t].state = "running" /\ fan[t].todo = {} /\ fan[t].owed = {}
  /\ EndFan(t)
  /\ UNCHANGED <<logVars, channelVars, relayVars, delVars, retryVars>>

\* A query or an enqueue fails, or the worker dies, anywhere in the handler.
FanFail(t) ==
  /\ t \in DOMAIN fan /\ fan[t].state = "running"
  /\ RetryFan(t) /\ Fault
  /\ UNCHANGED <<logVars, channelVars, relayVars, fanned, delVars, retryVars>>

-----------------------------------------------------------------------------
(* The deliver handler.                                                    *)

\* Mutant: one attempt more than the budget.
RetryDelOnceMore(t) ==
  del' = [del EXCEPT ![t] = IF del[t].retried <= DeliverMaxRetry
                            THEN Delivery(del[t].key, del[t].queue, del[t].retried + 1, "pending")
                            ELSE Move(del[t], "archived")]

RetryDel(t) ==
  del' = [del EXCEPT ![t] = IF del[t].retried < DeliverMaxRetry
                            THEN Delivery(del[t].key, del[t].queue, del[t].retried + 1, "pending")
                            ELSE Move(del[t], "archived")]

Step(t, state) == del' = [del EXCEPT ![t] = Move(del[t], state)]

EndDel(t) == \/ del' = Without(del, t) /\ UNCHANGED faults
             \/ RetryDel(t) /\ Fault

\* UPDATE broadcasts ... WHERE id = k: no row, no effect.
Mark(k, state) == broadcasts' = IF k \in DOMAIN broadcasts
                                THEN [broadcasts EXCEPT ![k] = state] ELSE broadcasts

\* A row that is gone or already sent is skipped.
DelFetch(t) ==
  /\ t \in DOMAIN del /\ del[t].state = "pending" /\ Idle(del[t].queue)
  /\ LET k == del[t].key
     IN  IF k \notin DOMAIN broadcasts \/ (k \in DOMAIN broadcasts /\ broadcasts[k] = "sent")
         THEN EndDel(t)
         ELSE Step(t, "fetched") /\ UNCHANGED faults
  /\ UNCHANGED <<logVars, channelVars, relayVars, taskVars, broadcasts, heard, excused, retryVars>>

\* GetChannel, then the sender, which takes the message or refuses it.  An error
\* (smtp.SendMail's on a connection that breaks, say) is no proof of a refusal:
\* the message may have been taken, and only the answer lost.
DelSend(t) ==
  /\ t \in DOMAIN del /\ del[t].state = "fetched"
  /\ LET k == del[t].key
         on == k[1] \in DOMAIN channels /\ channels[k[1]].active
     IN  \/ /\ ~on
            /\ Step(t, "skipped") /\ UNCHANGED <<heard, excused>>
         \/ /\ on
            /\ Step(t, "accepted") /\ UNCHANGED excused
            /\ heard' = [heard EXCEPT ![k] = @ + 1]
         \/ /\ on
            /\ Step(t, "refused") /\ UNCHANGED <<heard, excused>>
         \/ /\ on
            /\ Step(t, "refused")
            /\ heard' = [heard EXCEPT ![k] = @ + 1] /\ excused' = excused \cup {k}
  /\ UNCHANGED <<logVars, channelVars, relayVars, taskVars, broadcasts, retryVars, faults>>

\* Mutant: the channel that is off leaves its row as it was.
DelSettleSilently(t) ==
  /\ t \in DOMAIN del
  /\ \/ del[t].state = "accepted" /\ Mark(del[t].key, "sent")
     \/ del[t].state = "skipped" /\ UNCHANGED broadcasts
  /\ EndDel(t)
  /\ UNCHANGED <<logVars, channelVars, relayVars, taskVars, heard, excused, retryVars>>

\* Mutant: the sender's error is ignored.
DelSettleBlindly(t) ==
  /\ t \in DOMAIN del
  /\ \/ del[t].state \in {"accepted", "refused"} /\ Mark(del[t].key, "sent")
     \/ del[t].state = "skipped" /\ Mark(del[t].key, "dead")
  /\ EndDel(t)
  /\ UNCHANGED <<logVars, channelVars, relayVars, taskVars, heard, excused, retryVars>>

\* MarkBroadcastSent, or MarkBroadcastFailed with dead for a channel that is off.
DelSettle(t) ==
  /\ t \in DOMAIN del
  /\ \/ del[t].state = "accepted" /\ Mark(del[t].key, "sent")
     \/ del[t].state = "skipped" /\ Mark(del[t].key, "dead")
  /\ EndDel(t)
  /\ UNCHANGED <<logVars, channelVars, relayVars, taskVars, heard, excused, retryVars>>

\* Mutant: the last attempt does not turn the row dead.
DelRefusedNeverDead(t) ==
  /\ t \in DOMAIN del /\ del[t].state = "refused"
  /\ Mark(del[t].key, "failed")
  /\ RetryDel(t)
  /\ UNCHANGED <<logVars, channelVars, relayVars, taskVars, heard, excused, retryVars, faults>>

\* settleFailure: the last attempt turns the row dead; the error goes to asynq.
DelRefused(t) ==
  /\ t \in DOMAIN del /\ del[t].state = "refused"
  /\ Mark(del[t].key, IF del[t].retried >= DeliverMaxRetry THEN "dead" ELSE "failed")
  /\ RetryDel(t)
  /\ UNCHANGED <<logVars, channelVars, relayVars, taskVars, heard, excused, retryVars, faults>>

\* A query fails or the worker dies; after a send, its mark is lost.
DelFail(t) ==
  /\ t \in DOMAIN del /\ del[t].state \in AtWork
  /\ RetryDel(t) /\ Fault
  /\ excused' = IF del[t].state = "accepted" THEN excused \cup {del[t].key} ELSE excused
  /\ UNCHANGED <<logVars, channelVars, relayVars, taskVars, broadcasts, heard, retryVars>>

-----------------------------------------------------------------------------
(* The retry button: reset the row, then enqueue a second task.  The model *)
(* is bounded to one press in flight per row.                              *)

RetryReset(k) ==
  /\ manual < MaxManual /\ manual' = manual + 1
  /\ \A p \in retrying : p[1] # k
  /\ k \in DOMAIN broadcasts /\ broadcasts[k] \in {"failed", "dead"}
  /\ k[1] \in DOMAIN channels
  /\ broadcasts' = [broadcasts EXCEPT ![k] = "queued"]
  /\ retrying' = retrying \cup {<<k, QueueFor(channels[k[1]].kind)>>}
  /\ excused' = excused \cup {k}
  /\ UNCHANGED <<logVars, channelVars, relayVars, taskVars, del, heard, faults>>

RetryEnqueue ==
  /\ \E p \in retrying : EnqueueDelivery(p[1], p[2]) /\ retrying' = retrying \ {p}
  /\ UNCHANGED <<logVars, channelVars, relayVars, taskVars, broadcasts, heard, excused, manual, faults>>

\* The enqueue fails, or the API process ends between the two.
RetryLost ==
  /\ Fault
  /\ \E p \in retrying : retrying' = retrying \ {p}
  /\ UNCHANGED <<logVars, channelVars, relayVars, taskVars, delVars, manual>>

-----------------------------------------------------------------------------
RelayStep(w) == RelayClaim(w) \/ RelayRow(w) \/ RelayCommit(w)
FanStep(t) == FanStart(t) \/ FanRecord(t) \/ FanEnqueue(t) \/ FanFinish(t)
DelStep(t) == DelFetch(t) \/ DelSend(t) \/ DelSettle(t) \/ DelRefused(t)

DifNext ==
  \/ EditEvents
  \/ EditChannels
  \/ \E w \in Relay : RelayStep(w) \/ RelayAbort(w)
  \/ \E t \in FanTask : FanStep(t) \/ FanFail(t)
  \/ \E t \in DelTask : DelStep(t) \/ DelFail(t)
  \/ \E k \in DOMAIN broadcasts : RetryReset(k)
  \/ RetryEnqueue
  \/ RetryLost

DifSpec == DifInit /\ [][DifNext]_vars

\* The relay's ticker and asynq's servers keep running; people need not act.
DifFairness ==
  /\ \A w \in Relay : WF_vars(RelayStep(w))
  /\ \A t \in FanTask : WF_vars(FanStep(t))
  /\ \A t \in DelTask : WF_vars(DelStep(t))
  /\ WF_vars(RetryEnqueue)

DifFairSpec == DifSpec /\ DifFairness

-----------------------------------------------------------------------------
(***************************************************************************)
(* A row the relay marked processed is not lost: its fanout ran to its     *)
(* end, or asynq still holds it, or a newer correction of the same event   *)
(* replaces it (RelayOnce and ClaimOutboxBatch: enqueue, then mark).       *)
(***************************************************************************)
NoAnnouncementLost ==
  \A r \in processed : \/ r \in fanned
                       \/ \E t \in DOMAIN fan : fan[t].row = r
                       \/ Superseded(r)

(***************************************************************************)
(* Nobody learns of an event through its retraction: a channel that heard  *)
(* a cancellation had heard an announcement of that event (recipients and  *)
(* BroadcastRecipients), however fanouts, deliveries and edits interleave. *)
(***************************************************************************)
HeardAnnouncement(c, e) ==
  \E q \in DOMAIN outbox : /\ outbox[q].event = e /\ outbox[q].kind \in Announcing
                           /\ heard[<<c, q>>] > 0

RetractionOnlyToTheTold ==
  \A k \in Key : heard[k] > 0 /\ outbox[k[2]].kind = "cancelled" =>
                   HeardAnnouncement(k[1], EventOf(k))

(***************************************************************************)
(* A replayed fanout and a duplicated task never repeat a message: a       *)
(* channel hears each announcement at most once (CreateBroadcast's dedupe  *)
(* key, Deliver's test of the sent state), unless somebody pressed retry,  *)
(* the record of a send was lost, or the sender reported an error for a    *)
(* message that it had taken.                                              *)
(***************************************************************************)
HeardOnce == \A k \in Key \ excused : heard[k] <= 1

(***************************************************************************)
(* All the engine does to the broadcasts table is what Ledger.tla promises *)
(* the panel: a key is recorded once, however often its fanout is          *)
(* replayed, what was sent is not attempted again, only a failed row is    *)
(* reset, and rows go only with their event.                               *)
(***************************************************************************)
Promised == INSTANCE Ledger WITH rows <- broadcasts, loose <- excused

KeepsTheLedger == Promised!LedgerSpec

(***************************************************************************)
(* The panel does not mislead whoever decides to press retry: a row shown  *)
(* as sent was received, and one shown as failed or dead was not, unless   *)
(* the handler is about to record its send, that record was lost, the      *)
(* sender reported an error for a message that it had taken (settleFailure *)
(* cannot tell), or the row was retried by hand before.                    *)
(***************************************************************************)
BeingRecorded(k) == \E t \in DOMAIN del : del[t].key = k /\ del[t].state = "accepted"

PanelTellsTheTruth ==
  \A k \in DOMAIN broadcasts :
    /\ broadcasts[k] = "sent" => heard[k] > 0
    /\ broadcasts[k] \in {"failed", "dead"} /\ heard[k] > 0 =>
         k \in excused \/ BeingRecorded(k)

(***************************************************************************)
(* A queued row is on its way: somebody holds the task that will move it,  *)
(* or the fanout that recorded it has yet to run to its end.  The fanout   *)
(* loop assumes it when it skips a row that is already there (fanout.go:   *)
(* "already recorded and queued").                                         *)
(***************************************************************************)
QueuedIsOnItsWay ==
  \A k \in DOMAIN broadcasts : broadcasts[k] = "queued" =>
    \/ \E t \in DOMAIN del : del[t].key = k /\ del[t].state # "archived"
    \/ \E t \in DOMAIN fan : fan[t].row = k[2] /\ fan[t].state # "archived"
    \/ \E p \in retrying : p[1] = k

(***************************************************************************)
(* When the engine has nothing left to do, a channel that was told of an   *)
(* event now off has been told so (UnpublishEvent: "anyone already told    *)
(* about it learns it is off").                                            *)
(***************************************************************************)
AtRest == /\ processed = DOMAIN outbox /\ retrying = {}
          /\ \A t \in DOMAIN fan : fan[t].state = "archived"
          /\ \A t \in DOMAIN del : del[t].state = "archived"

ToldHearsTheRetraction ==
  AtRest =>
    \A r \in DOMAIN outbox, c \in DOMAIN channels :
      /\ outbox[r].kind = "cancelled" /\ Newest(r, outbox[r].event)
      /\ HeardAnnouncement(c, outbox[r].event)
      => <<c, r>> \in DOMAIN broadcasts

(***************************************************************************)
(* When the engine has nothing left to do, what the public calendar shows  *)
(* is what was announced: every channel addressed by the newest outbox row *)
(* of a public event has a delivery of that row, skipped corrections and   *)
(* republications notwithstanding (HasNewerUpdated skips only for a newer  *)
(* row).  For channels that nobody edits meanwhile.                        *)
(***************************************************************************)
CurrentIsAnnounced ==
  AtRest =>
    \A e \in DOMAIN events, r \in DOMAIN outbox :
      OnAir(events[e]) /\ Newest(r, e) =>
        \A c \in ActiveFor(outbox[r].payload.group) : <<c, r>> \in DOMAIN broadcasts

(***************************************************************************)
(* A channel of one group never hears an announcement made for another,    *)
(* although the event may change its group between the announcement, the   *)
(* fanout and the delivery (outbox rows carry a snapshot).  For channels   *)
(* that nobody edits meanwhile.                                            *)
(***************************************************************************)
OnlyItsGroupHears ==
  \A k \in Key :
    heard[k] > 0 /\ outbox[k[2]].kind \in Announcing /\ k[1] \in DOMAIN channels =>
      channels[k[1]].group \in {outbox[k[2]].payload.group, Parish}

(***************************************************************************)
(* Every outbox row is eventually processed, whatever the API and the      *)
(* deliveries do meanwhile.                                                *)
(***************************************************************************)
EveryRowProcessed == \A r \in RowId : r \in DOMAIN outbox ~> r \in processed

(***************************************************************************)
(* Every queued row eventually settles as sent or dead, or goes with its   *)
(* event: refused sends run out of retries.                                *)
(***************************************************************************)
Settled(k) == k \notin DOMAIN broadcasts \/ broadcasts[k] \in {"sent", "dead"}
EveryDeliverySettles == \A k \in Key : ~Settled(k) ~> Settled(k)

(***************************************************************************)
(* A channel whose announcement is recorded as sent before the fanout of   *)
(* its cancellation starts is eventually sent the cancellation, or it      *)
(* shows as dead, or the event's rows are deleted.                         *)
(***************************************************************************)
RetractionArrives ==
  \A c \in Channel, q, r \in RowId :
    ( /\ r \in DOMAIN outbox \ fanned /\ outbox[r].kind = "cancelled"
      /\ \A t \in DOMAIN fan : fan[t].row = r => fan[t].state = "pending"
      /\ <<c, q>> \in DOMAIN broadcasts /\ broadcasts[<<c, q>>] = "sent"
      /\ outbox[q].kind \in Announcing /\ outbox[q].event = outbox[r].event )
    ~> \/ <<c, r>> \in DOMAIN broadcasts /\ broadcasts[<<c, r>>] \in {"sent", "dead"}
       \/ r \in DOMAIN outbox /\ outbox[r].event \in deleted
=============================================================================
