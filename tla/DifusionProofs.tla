--------------------------- MODULE DifusionProofs ---------------------------
(***************************************************************************)
(* Proofs about the difusión engine, for every set of events, channels and *)
(* tasks, every retry budget and every number of failures: its types; that *)
(* it loses no announcement and retracts nothing from whoever was not      *)
(* told; that it repeats no message, tells the panel what happened and     *)
(* changes its rows as Ledger.tla promises; and what it promises while     *)
(* something around it holds still.                                        *)
(***************************************************************************)
EXTENDS Difusion, EventLogProofs

(***************************************************************************)
(* Adding, changing and removing a row keeps a table well typed.           *)
(***************************************************************************)
LEMMA TableOps ==
  ASSUME NEW Id, NEW Rows, NEW T, IsTable(T, Id, Rows)
  PROVE  /\ \A id \in Id, row \in Rows : IsTable(Put(T, id, row), Id, Rows)
         /\ \A id : IsTable(Without(T, id), Id, Rows)
         /\ \A id \in DOMAIN T, row \in Rows : IsTable([T EXCEPT ![id] = row], Id, Rows)
  BY DEF IsTable, Put, Without

(***************************************************************************)
(* The tasks an action writes are well typed.                              *)
(***************************************************************************)
LEMMA TasksTyped ==
  ASSUME DifTypeOK
  PROVE  /\ \A r \in RowId, n \in 0..FanoutMaxRetry : Waiting(r, n) \in FanoutTask
         /\ \A f \in FanoutTask, todo, owed \in SUBSET (Channel \X ChannelKind) :
              Looping(f, todo, owed) \in FanoutTask
         /\ \A f \in FanoutTask : Shelved(f) \in FanoutTask
         /\ \A k \in Key, q \in Queue, n \in 0..DeliverMaxRetry :
              Delivery(k, q, n, "pending") \in DeliverTask
         /\ \A d \in DeliverTask : \A s \in AtWork \cup {"archived"} : Move(d, s) \in DeliverTask
  BY DEF Waiting, Looping, Shelved, Delivery, Move, FanoutTask, DeliverTask, AtWork

(***************************************************************************)
(* A task asynq retries or archives stays well typed.                      *)
(***************************************************************************)
LEMMA RetryTyped ==
  ASSUME DifTypeOK
  PROVE  /\ \A t \in DOMAIN fan : RetryFan(t) => IsTable(fan, FanTask, FanoutTask)'
         /\ \A t \in DOMAIN fan : EndFan(t) => IsTable(fan, FanTask, FanoutTask)'
                                               /\ fanned' \subseteq RowId /\ faults' \in 0..MaxFaults
         /\ \A t \in DOMAIN del : RetryDel(t) => IsTable(del, DelTask, DeliverTask)'
         /\ \A t \in DOMAIN del : EndDel(t) => IsTable(del, DelTask, DeliverTask)'
                                               /\ faults' \in 0..MaxFaults
<1>0. IsTable(fan, FanTask, FanoutTask) /\ IsTable(del, DelTask, DeliverTask)
      /\ faults \in 0..MaxFaults /\ MaxFaults \in Nat /\ fanned \subseteq RowId
      /\ FanoutMaxRetry \in Nat /\ DeliverMaxRetry \in Nat
  BY DifusionConstants DEF DifTypeOK
<1>1. ASSUME NEW t \in DOMAIN fan
      PROVE  fan[t] \in FanoutTask /\ fan[t].row \in RowId /\ fan[t].retried \in 0..FanoutMaxRetry
  BY <1>0 DEF IsTable, FanoutTask
<1>2. ASSUME NEW t \in DOMAIN fan, RetryFan(t) PROVE IsTable(fan, FanTask, FanoutTask)'
  <2>1. fan[t].retried < FanoutMaxRetry => Waiting(fan[t].row, fan[t].retried + 1) \in FanoutTask
    <3>1. fan[t].retried < FanoutMaxRetry => fan[t].retried + 1 \in 0..FanoutMaxRetry
      BY <1>0, <1>1
    <3> QED
      BY <3>1, <1>1, TasksTyped
  <2>2. Shelved(fan[t]) \in FanoutTask
    BY <1>1, TasksTyped
  <2>3. PICK f \in FanoutTask : fan' = [fan EXCEPT ![t] = f]
    BY <1>2, <2>1, <2>2 DEF RetryFan
  <2> QED
    BY <1>0, <2>3 DEF IsTable
<1>3. ASSUME NEW t \in DOMAIN del
      PROVE  del[t] \in DeliverTask /\ del[t].key \in Key /\ del[t].queue \in Queue
             /\ del[t].retried \in 0..DeliverMaxRetry
  BY <1>0 DEF IsTable, DeliverTask
<1>4. ASSUME NEW t \in DOMAIN del, RetryDel(t) PROVE IsTable(del, DelTask, DeliverTask)'
  <2>1. del[t].retried < DeliverMaxRetry =>
          Delivery(del[t].key, del[t].queue, del[t].retried + 1, "pending") \in DeliverTask
    <3>1. del[t].retried < DeliverMaxRetry => del[t].retried + 1 \in 0..DeliverMaxRetry
      BY <1>0, <1>3
    <3> QED
      BY <3>1, <1>3, TasksTyped
  <2>2. Move(del[t], "archived") \in DeliverTask
    BY <1>3, TasksTyped
  <2>3. PICK d \in DeliverTask : del' = [del EXCEPT ![t] = d]
    BY <1>4, <2>1, <2>2 DEF RetryDel
  <2> QED
    BY <1>0, <2>3 DEF IsTable
<1>5. Fault => faults' \in 0..MaxFaults
  BY <1>0 DEF Fault
<1>6. ASSUME NEW t \in DOMAIN fan, EndFan(t)
      PROVE  IsTable(fan, FanTask, FanoutTask)' /\ fanned' \subseteq RowId /\ faults' \in 0..MaxFaults
  BY <1>0, <1>1, <1>2, <1>5, <1>6, TableOps DEF EndFan, IsTable, Without
<1>7. ASSUME NEW t \in DOMAIN del, EndDel(t)
      PROVE  IsTable(del, DelTask, DeliverTask)' /\ faults' \in 0..MaxFaults
  BY <1>0, <1>4, <1>5, <1>7 DEF EndDel, IsTable, Without
<1> QED
  BY <1>2, <1>4, <1>6, <1>7

(***************************************************************************)
(* Every step of the engine keeps the types.                               *)
(***************************************************************************)
LEMMA EditTypeStep == DifTypeOK /\ (EditEvents \/ EditChannels) => DifTypeOK'
<1> SUFFICES ASSUME DifTypeOK PROVE (EditEvents \/ EditChannels) => DifTypeOK'
  OBVIOUS
<1> USE DEF DifTypeOK, logVars, channelVars, relayVars, taskVars, delVars, retryVars
<1>1. ASSUME EditEvents PROVE DifTypeOK'
  <2>1. LogTypeOK'
    BY <1>1, LogTypeStep DEF EditEvents
  <2>2. IsTable(broadcasts, Key, State)'
    <3> DEFINE kept == {k \in DOMAIN broadcasts : EventOf(k) \in DOMAIN events'}
    <3>1. broadcasts' = [k \in kept |-> broadcasts[k]] /\ kept \subseteq DOMAIN broadcasts
      BY <1>1 DEF EditEvents
    <3> HIDE DEF kept
    <3> QED
      BY <3>1 DEF IsTable
  <2> QED
    BY <1>1, <2>1, <2>2 DEF EditEvents
<1>2. ASSUME EditChannels PROVE DifTypeOK'
  <2>1. UNCHANGED <<logVars, relayVars, taskVars, delVars, retryVars, faults>>
    BY <1>2 DEF EditChannels
  <2>2. ChannelEdits \subseteq ChannelRow
    BY DifusionConstants DEF ChannelRow
  <2>3. IsTable(channels, Channel, ChannelRow)' /\ removed' \subseteq Channel
    <3>1. ASSUME NEW c \in Channel, NEW row \in ChannelEdits, CreateChannel(c, row)
          PROVE  IsTable(channels, Channel, ChannelRow)' /\ removed' \subseteq Channel
      BY <3>1, <2>2, TableOps DEF CreateChannel, IsTable, Put
    <3>2. ASSUME NEW c \in Channel, NEW row \in ChannelEdits, UpdateChannel(c, row)
          PROVE  IsTable(channels, Channel, ChannelRow)' /\ removed' \subseteq Channel
      BY <3>2, <2>2 DEF UpdateChannel, IsTable
    <3>3. ASSUME NEW c \in Channel, DeleteChannel(c)
          PROVE  IsTable(channels, Channel, ChannelRow)' /\ removed' \subseteq Channel
      BY <3>3 DEF DeleteChannel, IsTable, Without
    <3> QED
      BY <1>2, <3>1, <3>2, <3>3 DEF EditChannels
  <2> QED
    BY <2>1, <2>3 DEF LogTypeOK
<1> QED
  BY <1>1, <1>2

LEMMA RelayTypeStep ==
  ASSUME DifTypeOK, NEW w \in Relay, RelayStep(w) \/ RelayAbort(w)
  PROVE  DifTypeOK'
<1> USE DEF DifTypeOK, logVars, channelVars, relayVars, taskVars, delVars, retryVars
<1>1. DOMAIN outbox \subseteq RowId
  BY EventLogConstants DEF LogTypeOK, RowId
<1>2. CASE RelayClaim(w)
  <2>1. Oldest(Claimable) \subseteq RowId
    BY <1>1 DEF Oldest, Claimable
  <2>2. batch' \in [Relay -> SUBSET RowId] /\ left' \in [Relay -> SUBSET RowId]
    BY <1>2, <2>1 DEF RelayClaim
  <2> QED
    BY <1>2, <2>2 DEF RelayClaim, LogTypeOK
<1>3. CASE RelayRow(w)
  <2>1. PICK r \in left[w] :
          /\ left' = [left EXCEPT ![w] = @ \ {r}]
          /\ \/ UNCHANGED fan
             \/ \E t \in FanTask \ DOMAIN fan : fan' = Put(fan, t, Waiting(r, 0))
    BY <1>3 DEF RelayRow
  <2>2. r \in RowId /\ 0 \in 0..FanoutMaxRetry
    BY DifusionConstants
  <2>3. IsTable(fan, FanTask, FanoutTask)'
    <3>1. Waiting(r, 0) \in FanoutTask
      BY <2>2, TasksTyped
    <3>2. CASE UNCHANGED fan
      BY <3>2 DEF IsTable
    <3>3. ASSUME NEW t \in FanTask \ DOMAIN fan, fan' = Put(fan, t, Waiting(r, 0))
          PROVE  IsTable(fan, FanTask, FanoutTask)'
      BY <3>1, <3>3 DEF IsTable, Put
    <3> QED
      BY <2>1, <3>2, <3>3
  <2>4. left' \in [Relay -> SUBSET RowId]
    BY <2>1
  <2> QED
    BY <1>3, <2>3, <2>4 DEF RelayRow, LogTypeOK
<1>4. CASE RelayCommit(w)
  <2>1. processed' \subseteq RowId /\ batch' \in [Relay -> SUBSET RowId]
    BY <1>4 DEF RelayCommit
  <2> QED
    BY <1>4, <2>1 DEF RelayCommit, LogTypeOK, IsTable
<1>5. CASE RelayAbort(w)
  <2>1. batch' \in [Relay -> SUBSET RowId] /\ left' \in [Relay -> SUBSET RowId]
    BY <1>5 DEF RelayAbort
  <2>2. faults' \in 0..MaxFaults
    BY <1>5, DifusionConstants DEF RelayAbort, Fault
  <2> QED
    BY <1>5, <2>1, <2>2 DEF RelayAbort, LogTypeOK, IsTable
<1> QED
  BY <1>2, <1>3, <1>4, <1>5 DEF RelayStep

LEMMA FanTypeStep ==
  ASSUME DifTypeOK, NEW t \in FanTask, FanStep(t) \/ FanFail(t)
  PROVE  DifTypeOK'
<1> USE DEF logVars, channelVars, relayVars, taskVars, delVars, retryVars
<1>0. DifTypeOK
  OBVIOUS
<1>a. t \in DOMAIN fan
  BY DEF FanStep, FanStart, FanRecord, FanEnqueue, FanFinish, FanFail
<1>b. /\ fan[t] \in FanoutTask /\ fan[t].row \in RowId
      /\ fan[t].todo \subseteq Channel \X ChannelKind /\ fan[t].owed \subseteq Channel \X ChannelKind
      /\ IsTable(fan, FanTask, FanoutTask)
  BY <1>0, <1>a DEF DifTypeOK, IsTable, FanoutTask
<1>c. ASSUME NEW todo \in SUBSET (Channel \X ChannelKind), NEW owed \in SUBSET (Channel \X ChannelKind),
             fan' = [fan EXCEPT ![t] = Looping(fan[t], todo, owed)]
      PROVE  IsTable(fan, FanTask, FanoutTask)'
  BY <1>a, <1>b, <1>c, TasksTyped DEF IsTable
<1>1. CASE FanStart(t)
  <2>1. UNCHANGED <<logVars, channelVars, relayVars, delVars, retryVars>>
    BY <1>1 DEF FanStart
  <2>2. Recipients(fan[t].row) \subseteq Channel \X ChannelKind
    <3>1. DOMAIN channels \subseteq Channel /\ \A c \in DOMAIN channels : channels[c].kind \in ChannelKind
      BY <1>0 DEF DifTypeOK, IsTable, ChannelRow
    <3> QED
      BY <3>1 DEF Recipients, ActiveFor
  <2>3. IsTable(fan, FanTask, FanoutTask)' /\ fanned' \subseteq RowId /\ faults' \in 0..MaxFaults
    <3>1. CASE Superseded(fan[t].row)
      BY <1>1, <3>1, <1>a, RetryTyped DEF FanStart
    <3>2. CASE ~Superseded(fan[t].row)
      BY <1>0, <1>1, <3>2, <2>2, <1>c DEF FanStart, DifTypeOK
    <3> QED
      BY <3>1, <3>2
  <2> QED
    BY <1>0, <2>1, <2>3 DEF DifTypeOK, LogTypeOK, IsTable
<1>2. CASE FanRecord(t)
  <2>1. UNCHANGED <<logVars, channelVars, relayVars, fanned, del, heard, excused, retryVars, faults>>
    BY <1>2 DEF FanRecord
  <2>2. PICK to \in fan[t].todo :
          \/ fan' = [fan EXCEPT ![t] = Looping(fan[t], fan[t].todo \ {to}, {})] /\ UNCHANGED broadcasts
          \/ /\ broadcasts' = Put(broadcasts, <<to[1], fan[t].row>>, "queued")
             /\ fan' = [fan EXCEPT ![t] = Looping(fan[t], fan[t].todo \ {to}, {to})]
          \/ RetryFan(t) /\ UNCHANGED broadcasts
    BY <1>2 DEF FanRecord
  <2>3. IsTable(fan, FanTask, FanoutTask)'
    <3>1. /\ fan[t].todo \ {to} \in SUBSET (Channel \X ChannelKind)
          /\ {to} \in SUBSET (Channel \X ChannelKind) /\ {} \in SUBSET (Channel \X ChannelKind)
      BY <1>b
    <3>2. CASE fan' = [fan EXCEPT ![t] = Looping(fan[t], fan[t].todo \ {to}, {})]
      BY <3>1, <3>2, <1>c
    <3>3. CASE fan' = [fan EXCEPT ![t] = Looping(fan[t], fan[t].todo \ {to}, {to})]
      BY <3>1, <3>3, <1>c
    <3>4. CASE RetryFan(t)
      BY <1>0, <1>a, <3>4, RetryTyped
    <3> QED
      BY <2>2, <3>2, <3>3, <3>4
  <2>4. IsTable(broadcasts, Key, State)'
    <3>1. <<to[1], fan[t].row>> \in Key
      BY <1>b DEF Key
    <3> QED
      BY <1>0, <2>2, <3>1 DEF DifTypeOK, IsTable, Put, State
  <2> QED
    BY <1>0, <2>1, <2>3, <2>4 DEF DifTypeOK, LogTypeOK, IsTable
<1>3. CASE FanEnqueue(t)
  <2>1. UNCHANGED <<logVars, channelVars, relayVars, fanned, broadcasts, heard, excused, retryVars, faults>>
    BY <1>3 DEF FanEnqueue
  <2>2. IsTable(fan, FanTask, FanoutTask)'
    <3>1. fan' = [fan EXCEPT ![t] = Looping(fan[t], fan[t].todo, {})]
      BY <1>3 DEF FanEnqueue
    <3>2. fan[t].todo \in SUBSET (Channel \X ChannelKind) /\ {} \in SUBSET (Channel \X ChannelKind)
      BY <1>b
    <3> QED
      BY <3>1, <3>2, <1>c
  <2>3. IsTable(del, DelTask, DeliverTask)'
    <3>1. PICK to \in fan[t].owed, d \in DelTask :
            del' = Put(del, d, Delivery(<<to[1], fan[t].row>>, QueueFor(to[2]), 0, "pending"))
      BY <1>3 DEF FanEnqueue, EnqueueDelivery
    <3>2. <<to[1], fan[t].row>> \in Key /\ QueueFor(to[2]) \in Queue /\ 0 \in 0..DeliverMaxRetry
      BY <1>b, DifusionConstants DEF Key, QueueFor, Queue
    <3>3. Delivery(<<to[1], fan[t].row>>, QueueFor(to[2]), 0, "pending") \in DeliverTask
      BY <3>2, TasksTyped
    <3> QED
      BY <1>0, <3>1, <3>3 DEF DifTypeOK, IsTable, Put
  <2> QED
    BY <1>0, <2>1, <2>2, <2>3 DEF DifTypeOK, LogTypeOK, IsTable
<1>4. CASE FanFinish(t)
  <2>1. UNCHANGED <<logVars, channelVars, relayVars, delVars, retryVars>> /\ EndFan(t)
    BY <1>4 DEF FanFinish
  <2> QED
    BY <1>0, <1>a, <2>1, RetryTyped DEF DifTypeOK, LogTypeOK, IsTable
<1>5. CASE FanFail(t)
  <2>1. UNCHANGED <<logVars, channelVars, relayVars, fanned, delVars, retryVars>> /\ RetryFan(t) /\ Fault
    BY <1>5 DEF FanFail
  <2>2. faults' \in 0..MaxFaults
    BY <1>0, <2>1, DifusionConstants DEF Fault, DifTypeOK
  <2> QED
    BY <1>0, <1>a, <2>1, <2>2, RetryTyped DEF DifTypeOK, LogTypeOK, IsTable
<1> QED
  BY <1>1, <1>2, <1>3, <1>4, <1>5 DEF FanStep

LEMMA DelTypeStep ==
  ASSUME DifTypeOK, NEW t \in DelTask, DelStep(t) \/ DelFail(t)
  PROVE  DifTypeOK'
<1> USE DEF logVars, channelVars, relayVars, taskVars, delVars, retryVars
<1>0. DifTypeOK
  OBVIOUS
<1>a. t \in DOMAIN del
  BY DEF DelStep, DelFetch, DelSend, DelSettle, DelRefused, DelFail
<1>b. /\ del[t] \in DeliverTask /\ del[t].key \in Key
      /\ IsTable(del, DelTask, DeliverTask) /\ IsTable(broadcasts, Key, State)
  BY <1>0, <1>a DEF DifTypeOK, IsTable, DeliverTask
<1>c. ASSUME NEW s \in AtWork, Step(t, s) PROVE IsTable(del, DelTask, DeliverTask)'
  <2>1. Move(del[t], s) \in DeliverTask
    BY <1>b, TasksTyped
  <2> QED
    BY <1>a, <1>b, <1>c, <2>1 DEF Step, IsTable
<1>d. ASSUME NEW s \in State, Mark(del[t].key, s) PROVE IsTable(broadcasts, Key, State)'
  BY <1>b, <1>d DEF Mark, IsTable
<1>1. CASE DelFetch(t)
  <2>1. UNCHANGED <<logVars, channelVars, relayVars, taskVars, broadcasts, heard, excused, retryVars>>
    BY <1>1 DEF DelFetch
  <2>2. EndDel(t) \/ (Step(t, "fetched") /\ UNCHANGED faults)
    BY <1>1 DEF DelFetch
  <2>3. IsTable(del, DelTask, DeliverTask)' /\ faults' \in 0..MaxFaults
    BY <1>0, <2>2, <1>a, <1>c, RetryTyped DEF AtWork, DifTypeOK
  <2> QED
    BY <1>0, <2>1, <2>3 DEF DifTypeOK, LogTypeOK, IsTable
<1>2. CASE DelSend(t)
  <2>1. UNCHANGED <<logVars, channelVars, relayVars, taskVars, broadcasts, retryVars, faults>>
    BY <1>2 DEF DelSend
  <2>2. \E state \in {"skipped", "refused", "accepted"} : Step(t, state)
    BY <1>2 DEF DelSend
  <2>4. UNCHANGED heard \/ heard' = [heard EXCEPT ![del[t].key] = @ + 1]
    BY <1>2 DEF DelSend
  <2>5. UNCHANGED excused \/ excused' = excused \cup {del[t].key}
    BY <1>2 DEF DelSend
  <2>6. IsTable(del, DelTask, DeliverTask)'
    BY <2>2, <1>c DEF AtWork
  <2>3. IsTable(del, DelTask, DeliverTask)' /\ heard' \in [Key -> Nat] /\ excused' \subseteq Key
    BY <1>0, <2>4, <2>5, <2>6, <1>b DEF DifTypeOK
  <2> QED
    BY <1>0, <2>1, <2>3 DEF DifTypeOK, LogTypeOK, IsTable
<1>3. CASE DelSettle(t)
  <2>1. UNCHANGED <<logVars, channelVars, relayVars, taskVars, heard, excused, retryVars>>
        /\ EndDel(t) /\ (Mark(del[t].key, "sent") \/ Mark(del[t].key, "dead"))
    BY <1>3 DEF DelSettle
  <2>2. IsTable(broadcasts, Key, State)'
    BY <2>1, <1>d DEF State
  <2>3. IsTable(del, DelTask, DeliverTask)' /\ faults' \in 0..MaxFaults
    BY <1>0, <2>1, <1>a, RetryTyped
  <2> QED
    BY <1>0, <2>1, <2>2, <2>3 DEF DifTypeOK, LogTypeOK, IsTable
<1>4. CASE DelRefused(t)
  <2>1. UNCHANGED <<logVars, channelVars, relayVars, taskVars, heard, excused, retryVars, faults>>
        /\ RetryDel(t) /\ (Mark(del[t].key, "dead") \/ Mark(del[t].key, "failed"))
    BY <1>4 DEF DelRefused
  <2>2. IsTable(broadcasts, Key, State)'
    BY <2>1, <1>d DEF State
  <2>3. IsTable(del, DelTask, DeliverTask)'
    BY <1>0, <2>1, <1>a, RetryTyped
  <2> QED
    BY <1>0, <2>1, <2>2, <2>3 DEF DifTypeOK, LogTypeOK, IsTable
<1>5. CASE DelFail(t)
  <2>1. UNCHANGED <<logVars, channelVars, relayVars, taskVars, broadcasts, heard, retryVars>>
        /\ RetryDel(t) /\ Fault /\ excused' \subseteq excused \cup {del[t].key}
    BY <1>5 DEF DelFail
  <2>2. faults' \in 0..MaxFaults
    BY <1>0, <2>1, DifusionConstants DEF Fault, DifTypeOK
  <2>3. IsTable(del, DelTask, DeliverTask)' /\ excused' \subseteq Key
    BY <1>0, <2>1, <1>a, <1>b, RetryTyped DEF DifTypeOK
  <2> QED
    BY <1>0, <2>1, <2>2, <2>3 DEF DifTypeOK, LogTypeOK, IsTable
<1> QED
  BY <1>1, <1>2, <1>3, <1>4, <1>5 DEF DelStep

LEMMA RetryTypeStep ==
  DifTypeOK /\ ((\E k \in DOMAIN broadcasts : RetryReset(k)) \/ RetryEnqueue \/ RetryLost) => DifTypeOK'
<1> USE DEF logVars, channelVars, relayVars, taskVars, delVars, retryVars
<1>0. SUFFICES ASSUME DifTypeOK
               PROVE  (\E k \in DOMAIN broadcasts : RetryReset(k)) \/ RetryEnqueue \/ RetryLost => DifTypeOK'
  OBVIOUS
<1>1. ASSUME NEW k \in DOMAIN broadcasts, RetryReset(k) PROVE DifTypeOK'
  <2>1. UNCHANGED <<logVars, channelVars, relayVars, taskVars, del, heard, faults>>
        /\ broadcasts' = [broadcasts EXCEPT ![k] = "queued"]
        /\ retrying' = retrying \cup {<<k, QueueFor(channels[k[1]].kind)>>}
        /\ excused' = excused \cup {k} /\ manual < MaxManual /\ manual' = manual + 1
    BY <1>1 DEF RetryReset
  <2>2. k \in Key /\ IsTable(broadcasts, Key, State)'
    BY <1>0, <2>1 DEF DifTypeOK, IsTable, State
  <2>3. manual' \in 0..MaxManual
    BY <1>0, <2>1, DifusionConstants DEF DifTypeOK
  <2>4. retrying' \subseteq Key \X Queue /\ excused' \subseteq Key
    BY <1>0, <2>1, <2>2 DEF DifTypeOK, QueueFor, Queue
  <2> QED
    BY <1>0, <2>1, <2>2, <2>3, <2>4 DEF DifTypeOK, LogTypeOK, IsTable
<1>2. ASSUME RetryEnqueue PROVE DifTypeOK'
  <2>1. UNCHANGED <<logVars, channelVars, relayVars, taskVars, broadcasts, heard, excused, manual, faults>>
        /\ retrying' \subseteq retrying
    BY <1>2 DEF RetryEnqueue
  <2>2. PICK p \in retrying, d \in DelTask : del' = Put(del, d, Delivery(p[1], p[2], 0, "pending"))
    BY <1>2 DEF RetryEnqueue, EnqueueDelivery
  <2>3. Delivery(p[1], p[2], 0, "pending") \in DeliverTask
    <3>1. p[1] \in Key /\ p[2] \in Queue /\ 0 \in 0..DeliverMaxRetry
      BY <1>0, DifusionConstants DEF DifTypeOK
    <3> QED
      BY <1>0, <3>1, TasksTyped
  <2>4. IsTable(del, DelTask, DeliverTask)' /\ retrying' \subseteq Key \X Queue
    BY <1>0, <2>1, <2>2, <2>3 DEF DifTypeOK, IsTable, Put
  <2> QED
    BY <1>0, <2>1, <2>4 DEF DifTypeOK, LogTypeOK, IsTable
<1>3. ASSUME RetryLost PROVE DifTypeOK'
  <2>1. UNCHANGED <<logVars, channelVars, relayVars, taskVars, delVars, manual>>
        /\ retrying' \subseteq retrying /\ Fault
    BY <1>3 DEF RetryLost
  <2>2. faults' \in 0..MaxFaults
    BY <1>0, <2>1, DifusionConstants DEF Fault, DifTypeOK
  <2> QED
    BY <1>0, <2>1, <2>2 DEF DifTypeOK, LogTypeOK, IsTable
<1> QED
  BY <1>1, <1>2, <1>3

LEMMA DifTypeStep == DifTypeOK /\ [DifNext]_vars => DifTypeOK'
<1> SUFFICES ASSUME DifTypeOK, [DifNext]_vars PROVE DifTypeOK'
  OBVIOUS
<1>1. CASE UNCHANGED vars
  BY <1>1 DEF vars, logVars, channelVars, relayVars, taskVars, delVars, retryVars,
              DifTypeOK, LogTypeOK, IsTable
<1>2. CASE DifNext
  BY <1>2, EditTypeStep, RelayTypeStep, FanTypeStep, DelTypeStep, RetryTypeStep DEF DifNext
<1> QED
  BY <1>1, <1>2

LEMMA DifTypeInit == DifInit => DifTypeOK
<1> SUFFICES ASSUME DifInit PROVE DifTypeOK
  OBVIOUS
<1>1. LogTypeOK
  BY EventLogConstants DEF DifInit, LogInit, LogTypeOK, IsTable
<1>2. IsTable(channels, Channel, ChannelRow)
  BY DifusionConstants DEF DifInit, IsTable, ChannelRow
<1>3. /\ IsTable(fan, FanTask, FanoutTask) /\ IsTable(del, DelTask, DeliverTask)
      /\ IsTable(broadcasts, Key, State)
  BY DEF DifInit, IsTable
<1> QED
  BY <1>1, <1>2, <1>3, DifusionConstants DEF DifInit, DifTypeOK

(***************************************************************************)
(* Tables, tasks and bookkeeping keep their types.                         *)
(***************************************************************************)
THEOREM DifTypeCorrect == DifSpec => []DifTypeOK
  BY DifTypeInit, DifTypeStep, PTL DEF DifSpec

(***************************************************************************)
(* Every step of the engine is a mutation of the API or leaves the log     *)
(* alone.                                                                  *)
(***************************************************************************)
LEMMA StepOfTheLog == [DifNext]_vars => [LogNext]_logVars
<1> SUFFICES ASSUME [DifNext]_vars PROVE [LogNext]_logVars
  OBVIOUS
<1>1. CASE EditEvents
  BY <1>1 DEF EditEvents
<1>2. CASE DifNext /\ ~EditEvents
  BY <1>2 DEF DifNext, EditChannels, RelayStep, RelayClaim, RelayRow, RelayCommit, RelayAbort,
              FanStep, FanStart, FanRecord, FanEnqueue, FanFinish, FanFail,
              DelStep, DelFetch, DelSend, DelSettle, DelRefused, DelFail,
              RetryReset, RetryEnqueue, RetryLost
<1>3. CASE UNCHANGED vars
  BY <1>3 DEF vars
<1> QED
  BY <1>1, <1>2, <1>3

(***************************************************************************)
(* The engine never writes the events or the outbox: to them, every step   *)
(* of the composed system is a mutation of the API or nothing at all.      *)
(***************************************************************************)
THEOREM EngineKeepsTheLog == DifSpec => LogSpec
<1>1. DifInit => LogInit
  BY DEF DifInit
<1> QED
  BY <1>1, StepOfTheLog, PTL DEF DifSpec, LogSpec

(***************************************************************************)
(* However the engine's tasks overlap and fail, what they announce of an   *)
(* event stays a coherent story, and its newest row what the calendar      *)
(* shows.                                                                  *)
(***************************************************************************)
THEOREM StoryStaysCoherent == DifSpec => [](LogTellsTheTruth /\ StoryIsCoherent)
<1>1. DifSpec => []LogTellsTheTruth /\ []StoryIsCoherent
  BY EngineKeepsTheLog, LogIsTrue, LogIsCoherent
<1> QED
  BY <1>1, PTL

-----------------------------------------------------------------------------
(***************************************************************************)
(* Nothing is lost, and nothing is retracted from whoever was not told.    *)
(***************************************************************************)

(***************************************************************************)
(* The outbox is append-only (nothing updates or deletes its rows).        *)
(***************************************************************************)
LEMMA OutboxGrows ==
  ASSUME LogTypeOK, [LogNext]_logVars
  PROVE  /\ DOMAIN outbox \subseteq DOMAIN outbox'
         /\ \A r \in DOMAIN outbox : outbox'[r] = outbox[r]
<1>1. CASE UNCHANGED outbox
  BY <1>1
<1>2. ASSUME NEW e \in Event, NEW kind \in Kind, NEW data, PayloadOf(data) \in Payload,
             InsertOutbox(e, kind, data)
      PROVE  /\ DOMAIN outbox \subseteq DOMAIN outbox'
             /\ \A r \in DOMAIN outbox : outbox'[r] = outbox[r]
  BY <1>2, Appended
<1>3. \/ UNCHANGED outbox
      \/ \E e \in Event, kind \in Kind : \E data \in Payload \cup EventRow : InsertOutbox(e, kind, data)
  <2>1. \A e \in DOMAIN events : events[e] \in EventRow
    BY DEF LogTypeOK, IsTable
  <2> QED
    BY <2>1 DEF LogNext, logVars, CreateEvent, UpdateEvent, PublishEvent, UnpublishEvent, DeleteEvent, Kind
<1> QED
  BY <1>1, <1>2, <1>3, RowsTyped

(***************************************************************************)
(* A row with a newer correction keeps having one.                         *)
(***************************************************************************)
LEMMA SupersededStays ==
  ASSUME LogTypeOK, [LogNext]_logVars, NEW r \in DOMAIN outbox, Superseded(r)
  PROVE  Superseded(r)'
  BY OutboxGrows DEF Superseded

-----------------------------------------------------------------------------
(* The relay loses nothing.                                                *)

\* Row r is out of the relay's hands.
HandedOut(r) == \/ r \in fanned
                \/ \E t \in DOMAIN fan : fan[t].row = r
                \/ Superseded(r)

\* What a relay claimed and enqueued is handed out before it is marked.
HandInv ==
  /\ DifTypeOK
  /\ processed \subseteq DOMAIN outbox
  /\ \A w \in Relay : left[w] \subseteq batch[w] /\ batch[w] \subseteq DOMAIN outbox
  /\ \A r \in processed : HandedOut(r)
  /\ \A w \in Relay : \A r \in batch[w] \ left[w] : HandedOut(r)

(***************************************************************************)
(* A task in asynq's hands keeps its row, or its fanout ran to its end.    *)
(***************************************************************************)
LEMMA FanoutKeepsRows ==
  ASSUME NEW t \in DOMAIN fan, NEW u \in DOMAIN fan, FanStep(t) \/ FanFail(t)
  PROVE  \/ u \in DOMAIN fan' /\ fan'[u].row = fan[u].row
         \/ fan[u].row \in fanned'
<1>1. ASSUME RetryFan(t) PROVE u \in DOMAIN fan' /\ fan'[u].row = fan[u].row
  BY <1>1 DEF RetryFan, Waiting, Shelved
<1>2. ASSUME NEW todo, NEW owed, fan' = [fan EXCEPT ![t] = Looping(fan[t], todo, owed)]
      PROVE u \in DOMAIN fan' /\ fan'[u].row = fan[u].row
  BY <1>2 DEF Looping
<1>3. ASSUME EndFan(t)
      PROVE  (u \in DOMAIN fan' /\ fan'[u].row = fan[u].row) \/ fan[u].row \in fanned'
  BY <1>1, <1>3 DEF EndFan, Without
<1>4. \/ RetryFan(t) \/ EndFan(t)
      \/ \E todo, owed : fan' = [fan EXCEPT ![t] = Looping(fan[t], todo, owed)]
  <2>1. CASE FanStart(t)
    BY <2>1 DEF FanStart
  <2>2. CASE FanRecord(t)
    BY <2>2 DEF FanRecord
  <2>3. CASE FanEnqueue(t)
    BY <2>3 DEF FanEnqueue
  <2>4. CASE FanFinish(t) \/ FanFail(t)
    BY <2>4 DEF FanFinish, FanFail
  <2> QED
    BY <2>1, <2>2, <2>3, <2>4 DEF FanStep
<1> QED
  BY <1>1, <1>2, <1>3, <1>4

(***************************************************************************)
(* A row handed out stays handed out, whatever happens next.               *)
(***************************************************************************)
LEMMA HandedOutStays ==
  ASSUME DifTypeOK, [DifNext]_vars, NEW r \in DOMAIN outbox, HandedOut(r)
  PROVE  HandedOut(r)'
<1> USE DEF vars, taskVars
<1>1. CASE Superseded(r)
  BY <1>1, StepOfTheLog, SupersededStays DEF HandedOut, DifTypeOK
<1>2. fanned \subseteq fanned'
  BY DEF DifNext, EditEvents, EditChannels, RelayStep, RelayClaim, RelayRow, RelayCommit, RelayAbort,
         FanStep, FanStart, FanRecord, FanEnqueue, FanFinish, FanFail, EndFan,
         DelStep, DelFetch, DelSend, DelSettle, DelRefused, DelFail,
         RetryReset, RetryEnqueue, RetryLost
<1>3. ASSUME NEW u \in DOMAIN fan
      PROVE  (u \in DOMAIN fan' /\ fan'[u].row = fan[u].row) \/ fan[u].row \in fanned'
  <2>1. CASE \E t \in FanTask : FanStep(t) \/ FanFail(t)
    <3>1. PICK t \in FanTask : FanStep(t) \/ FanFail(t)
      BY <2>1
    <3>2. t \in DOMAIN fan
      BY <3>1 DEF FanStep, FanStart, FanRecord, FanEnqueue, FanFinish, FanFail
    <3> QED
      BY <3>1, <3>2, FanoutKeepsRows
  <2>2. CASE \E w \in Relay : RelayRow(w)
    <3>1. \/ UNCHANGED fan
          \/ \E t \in FanTask \ DOMAIN fan : \E row : fan' = Put(fan, t, row)
      BY <2>2 DEF RelayRow
    <3> QED
      BY <3>1 DEF Put
  <2>3. CASE UNCHANGED fan
    BY <2>3
  <2> QED
    BY <2>1, <2>2, <2>3 DEF DifNext, EditEvents, EditChannels, RelayStep, RelayClaim, RelayCommit, RelayAbort,
         DelStep, DelFetch, DelSend, DelSettle, DelRefused, DelFail,
         RetryReset, RetryEnqueue, RetryLost
<1> QED
  BY <1>1, <1>2, <1>3 DEF HandedOut

(***************************************************************************)
(* The relay's steps keep the invariant: a row leaves the batch handed out.*)
(***************************************************************************)
LEMMA HandStep == HandInv /\ [DifNext]_vars => HandInv'
<1> SUFFICES ASSUME HandInv, [DifNext]_vars PROVE HandInv'
  OBVIOUS
<1>0. DifTypeOK /\ DifTypeOK'
  BY DifTypeStep DEF HandInv
<1>1. DOMAIN outbox \subseteq DOMAIN outbox'
  BY <1>0, StepOfTheLog, OutboxGrows DEF DifTypeOK
<1>2. \A r \in DOMAIN outbox : HandedOut(r) => HandedOut(r)'
  BY <1>0, HandedOutStays
<1>3. CASE UNCHANGED <<processed, batch, left>>
  BY <1>0, <1>1, <1>2, <1>3 DEF HandInv
<1>4. ASSUME NEW w \in Relay, RelayClaim(w) PROVE HandInv'
  <2>1. Oldest(Claimable) \subseteq DOMAIN outbox
    BY DEF Oldest, Claimable
  <2>2. processed' = processed /\ DOMAIN outbox' = DOMAIN outbox
        /\ batch' = [batch EXCEPT ![w] = Oldest(Claimable)]
        /\ left' = [left EXCEPT ![w] = Oldest(Claimable)]
    BY <1>4 DEF RelayClaim, logVars
  <2>3. \A v \in Relay : left'[v] \subseteq batch'[v] /\ batch'[v] \subseteq DOMAIN outbox
    BY <1>0, <2>1, <2>2 DEF HandInv, DifTypeOK
  <2>4. \A v \in Relay : \A r \in batch'[v] \ left'[v] : r \in batch[v] \ left[v]
    BY <1>0, <2>2 DEF DifTypeOK
  <2> QED
    BY <1>0, <1>2, <2>2, <2>3, <2>4 DEF HandInv
<1>5. ASSUME NEW w \in Relay, RelayRow(w) PROVE HandInv'
  <2>1. PICK r \in left[w] :
          /\ left' = [left EXCEPT ![w] = @ \ {r}]
          /\ Superseded(r) \/ \E t \in FanTask : fan' = Put(fan, t, Waiting(r, 0))
    BY <1>5 DEF RelayRow
  <2>2. processed' = processed /\ batch' = batch /\ outbox' = outbox
    BY <1>5 DEF RelayRow, logVars
  <2>3. HandedOut(r)'
    <3>1. CASE Superseded(r)
      BY <2>2, <3>1 DEF HandedOut, Superseded
    <3>2. ASSUME NEW t \in FanTask, fan' = Put(fan, t, Waiting(r, 0)) PROVE HandedOut(r)'
      BY <3>2 DEF HandedOut, Put, Waiting
    <3> QED
      BY <2>1, <3>1, <3>2
  <2>4. \A v \in Relay : left'[v] \subseteq left[v]
    BY <1>0, <2>1 DEF DifTypeOK
  <2>5. \A v \in Relay : \A q \in batch'[v] \ left'[v] : HandedOut(q)'
    <3> SUFFICES ASSUME NEW v \in Relay, NEW q \in batch[v] \ left'[v] PROVE HandedOut(q)'
      BY <2>2
    <3>1. CASE q \notin left[v]
      BY <1>2, <3>1 DEF HandInv
    <3>2. CASE q \in left[v]
      <4>1. q = r
        BY <1>0, <2>1, <3>2 DEF DifTypeOK
      <4> QED
        BY <2>3, <4>1
    <3> QED
      BY <3>1, <3>2
  <2> QED
    BY <1>0, <1>2, <2>2, <2>4, <2>5 DEF HandInv
<1>6. ASSUME NEW w \in Relay, RelayCommit(w) PROVE HandInv'
  <2>1. left[w] = {} /\ left' = left /\ processed' = processed \cup batch[w]
        /\ batch' = [batch EXCEPT ![w] = {}] /\ outbox' = outbox
    BY <1>6 DEF RelayCommit, logVars
  <2>2. processed' \subseteq DOMAIN outbox /\ \A r \in processed' : HandedOut(r)'
    BY <1>2, <2>1 DEF HandInv
  <2>3. \A v \in Relay : left'[v] \subseteq batch'[v] /\ batch'[v] \subseteq batch[v]
    BY <1>0, <2>1 DEF HandInv, DifTypeOK
  <2> QED
    BY <1>0, <1>2, <2>1, <2>2, <2>3 DEF HandInv
<1>7. ASSUME NEW w \in Relay, RelayAbort(w) PROVE HandInv'
  <2>1. processed' = processed /\ outbox' = outbox
        /\ batch' = [batch EXCEPT ![w] = {}] /\ left' = [left EXCEPT ![w] = {}]
    BY <1>7 DEF RelayAbort, logVars
  <2>2. \A v \in Relay : /\ left'[v] \subseteq batch'[v] /\ batch'[v] \subseteq batch[v]
                         /\ batch'[v] \ left'[v] \subseteq batch[v] \ left[v]
    BY <1>0, <2>1 DEF HandInv, DifTypeOK
  <2> QED
    BY <1>0, <1>2, <2>1, <2>2 DEF HandInv
<1>8. \/ UNCHANGED <<processed, batch, left>>
      \/ \E w \in Relay : RelayClaim(w) \/ RelayRow(w) \/ RelayCommit(w) \/ RelayAbort(w)
  BY DEF vars, relayVars, DifNext, EditEvents, EditChannels, RelayStep,
         FanStep, FanStart, FanRecord, FanEnqueue, FanFinish, FanFail,
         DelStep, DelFetch, DelSend, DelSettle, DelRefused, DelFail,
         RetryReset, RetryEnqueue, RetryLost
<1> QED
  BY <1>3, <1>4, <1>5, <1>6, <1>7, <1>8

(***************************************************************************)
(* No announcement is lost: whatever fails and however relays and fanouts  *)
(* interleave, a processed row was fanned out, is in asynq's hands, or is  *)
(* replaced by a newer correction.                                         *)
(***************************************************************************)
THEOREM NothingLost == DifSpec => []NoAnnouncementLost
<1>1. DifInit => HandInv
  <2> SUFFICES ASSUME DifInit PROVE HandInv
    OBVIOUS
  <2> QED
    BY DifTypeInit DEF DifInit, HandInv
<1>2. HandInv => NoAnnouncementLost
  BY DEF HandInv, HandedOut, NoAnnouncementLost
<1> QED
  BY <1>1, <1>2, HandStep, PTL DEF DifSpec

-----------------------------------------------------------------------------
(* Nobody learns of an event through its retraction.                       *)

\* The message k names a row, and a retraction goes to who heard of the event.
Grounded(k) ==
  /\ k[2] \in DOMAIN outbox
  /\ outbox[k[2]].kind = "cancelled" => HeardAnnouncement(k[1], EventOf(k))

\* Every copy of a recipient, on its way from the outbox to the channel.
FansGrounded == \A t \in DOMAIN fan :
  /\ fan[t].row \in DOMAIN outbox
  /\ \A to \in fan[t].todo \cup fan[t].owed : Grounded(<<to[1], fan[t].row>>)
RowsGrounded == \A k \in DOMAIN broadcasts :
  Grounded(k) /\ (broadcasts[k] = "sent" => heard[k] > 0)
TasksGrounded == \A t \in DOMAIN del :
  Grounded(del[t].key) /\ (del[t].state = "accepted" => heard[del[t].key] > 0)
RetriesGrounded == \A p \in retrying : Grounded(p[1])
HeardGrounded == \A k \in Key : heard[k] > 0 => Grounded(k)

ToldInv == HandInv /\ FansGrounded /\ RowsGrounded /\ TasksGrounded
                   /\ RetriesGrounded /\ HeardGrounded

(***************************************************************************)
(* What was heard stays heard, so what is grounded stays grounded.         *)
(***************************************************************************)
LEMMA GroundedStays ==
  ASSUME DifTypeOK, [DifNext]_vars
  PROVE  /\ \A k \in Key : heard[k] > 0 => heard'[k] > 0
         /\ \A k \in Key : Grounded(k) => Grounded(k)'
<1>1. \A k \in Key : heard[k] > 0 => heard'[k] > 0
  <2>1. CASE UNCHANGED heard
    BY <2>1
  <2>2. CASE \E t \in DelTask : DelSend(t)
    <3>1. PICK k \in Key : UNCHANGED heard \/ heard' = [heard EXCEPT ![k] = @ + 1]
      BY <2>2 DEF DelSend, DifTypeOK, IsTable, DeliverTask
    <3> QED
      BY <3>1 DEF DifTypeOK
  <2> QED
    BY <2>1, <2>2 DEF vars, delVars, DifNext, EditEvents, EditChannels,
         RelayStep, RelayClaim, RelayRow, RelayCommit, RelayAbort,
         FanStep, FanStart, FanRecord, FanEnqueue, FanFinish, FanFail,
         DelStep, DelFetch, DelSettle, DelRefused, DelFail, RetryReset, RetryEnqueue, RetryLost
<1>2. /\ DOMAIN outbox \subseteq DOMAIN outbox'
      /\ \A r \in DOMAIN outbox : outbox'[r] = outbox[r]
  BY StepOfTheLog, OutboxGrows DEF DifTypeOK
<1>3. ASSUME NEW c \in Channel, NEW e, HeardAnnouncement(c, e) PROVE HeardAnnouncement(c, e)'
  <2>1. DOMAIN outbox \subseteq RowId
    BY EventLogConstants DEF DifTypeOK, LogTypeOK, RowId
  <2> QED
    BY <1>1, <1>2, <1>3, <2>1 DEF HeardAnnouncement, Key
<1>4. ASSUME NEW k \in Key, Grounded(k) PROVE Grounded(k)'
  BY <1>2, <1>3, <1>4 DEF Grounded, EventOf, Key
<1> QED
  BY <1>1, <1>4

(***************************************************************************)
(* The recipients of a row may be told (recipients in fanout.go).          *)
(***************************************************************************)
LEMMA RecipientsGrounded ==
  ASSUME ToldInv, NEW r \in DOMAIN outbox, NEW to \in Recipients(r)
  PROVE  Grounded(<<to[1], r>>)
<1>1. CASE outbox[r].kind # "cancelled"
  BY <1>1 DEF Grounded
<1>2. CASE outbox[r].kind = "cancelled"
  <2>1. to[1] \in Told(outbox[r].event)
    BY <1>2 DEF Recipients
  <2>2. PICK k \in DOMAIN broadcasts :
          k[1] = to[1] /\ EventOf(k) = outbox[r].event
          /\ broadcasts[k] = "sent" /\ outbox[k[2]].kind \in Announcing
    BY <2>1 DEF Told
  <2>3. k \in Key /\ heard[k] > 0 /\ k[2] \in DOMAIN outbox /\ k = <<to[1], k[2]>>
    BY <2>2 DEF ToldInv, RowsGrounded, HandInv, DifTypeOK, IsTable, Grounded, Key
  <2> QED
    BY <2>2, <2>3 DEF Grounded, HeardAnnouncement, EventOf
<1> QED
  BY <1>1, <1>2

(***************************************************************************)
(* Each part of the invariant is kept by every step.                       *)
(***************************************************************************)
LEMMA FansStep == ToldInv /\ [DifNext]_vars => FansGrounded'
<1> SUFFICES ASSUME ToldInv, [DifNext]_vars PROVE FansGrounded'
  OBVIOUS
<1>1. DifTypeOK /\ DOMAIN outbox \subseteq DOMAIN outbox' /\ DOMAIN outbox \subseteq RowId
  BY StepOfTheLog, OutboxGrows, EventLogConstants DEF ToldInv, HandInv, DifTypeOK, LogTypeOK, RowId
<1>2. \A k \in Key : Grounded(k) => Grounded(k)'
  BY <1>1, GroundedStays
<1>3. ASSUME NEW f \in FanoutTask, f.row \in DOMAIN outbox,
             \A to \in f.todo \cup f.owed : Grounded(<<to[1], f.row>>)
      PROVE  f.row \in DOMAIN outbox' /\ \A to \in f.todo \cup f.owed : Grounded(<<to[1], f.row>>)'
  BY <1>1, <1>2, <1>3 DEF FanoutTask, Key
<1>4. \A t \in DOMAIN fan :
        /\ fan[t] \in FanoutTask /\ fan[t].row \in DOMAIN outbox
        /\ \A to \in fan[t].todo \cup fan[t].owed : Grounded(<<to[1], fan[t].row>>)
  BY <1>1 DEF ToldInv, FansGrounded, DifTypeOK, IsTable
<1>5. ASSUME NEW t \in DOMAIN fan'
      PROVE  \/ t \in DOMAIN fan /\ fan'[t] = fan[t]
             \/ \E f \in FanoutTask : /\ fan'[t] = f /\ f.row \in DOMAIN outbox
                                      /\ \A to \in f.todo \cup f.owed : Grounded(<<to[1], f.row>>)
  <2> USE <1>1, <1>4
  <2>1. ASSUME NEW r \in DOMAIN outbox, NEW n \in 0..FanoutMaxRetry
        PROVE  /\ Waiting(r, n) \in FanoutTask /\ Waiting(r, n).row = r
               /\ Waiting(r, n).todo \cup Waiting(r, n).owed = {}
    BY TasksTyped DEF Waiting
  <2>2. ASSUME NEW w \in Relay, RelayRow(w)
        PROVE  (t \in DOMAIN fan /\ fan'[t] = fan[t]) \/ \E r \in DOMAIN outbox : fan'[t] = Waiting(r, 0)
    <3>1. PICK r \in left[w] : UNCHANGED fan \/ \E u \in FanTask : fan' = Put(fan, u, Waiting(r, 0))
      BY <2>2 DEF RelayRow
    <3>2. r \in DOMAIN outbox
      BY DEF ToldInv, HandInv
    <3>3. ASSUME NEW u \in FanTask, fan' = Put(fan, u, Waiting(r, 0))
          PROVE  (t \in DOMAIN fan /\ fan'[t] = fan[t]) \/ fan'[t] = Waiting(r, 0)
      BY <3>3 DEF Put
    <3> QED
      BY <3>1, <3>2, <3>3
  <2>3. ASSUME NEW u \in DOMAIN fan, RetryFan(u) \/ EndFan(u)
        PROVE  (t \in DOMAIN fan /\ fan'[t] = fan[t])
               \/ (\E n \in 0..FanoutMaxRetry : fan'[t] = Waiting(fan[u].row, n))
               \/ fan'[t] = Shelved(fan[u])
    <3>1. fan[u].retried \in 0..FanoutMaxRetry /\ FanoutMaxRetry \in Nat
      BY DifusionConstants DEF FanoutTask
    <3>2. fan[u].retried < FanoutMaxRetry => fan[u].retried + 1 \in 0..FanoutMaxRetry
      BY <3>1
    <3>3. CASE RetryFan(u)
      <4>1. fan' = [fan EXCEPT ![u] = Shelved(fan[u])]
            \/ (fan[u].retried < FanoutMaxRetry
                /\ fan' = [fan EXCEPT ![u] = Waiting(fan[u].row, fan[u].retried + 1)])
        BY <3>3 DEF RetryFan
      <4> QED
        BY <3>2, <4>1
    <3>4. CASE fan' = Without(fan, u)
      BY <3>4 DEF Without
    <3> QED
      BY <2>3, <3>3, <3>4 DEF EndFan
  <2>4. ASSUME NEW u \in DOMAIN fan
        PROVE  /\ Shelved(fan[u]) \in FanoutTask /\ Shelved(fan[u]).row = fan[u].row
               /\ Shelved(fan[u]).todo \cup Shelved(fan[u]).owed = {}
    BY TasksTyped DEF Shelved
  <2>5. ASSUME NEW u \in DOMAIN fan, NEW todo \in SUBSET (Channel \X ChannelKind),
               NEW owed \in SUBSET (Channel \X ChannelKind)
        PROVE  /\ Looping(fan[u], todo, owed) \in FanoutTask
               /\ Looping(fan[u], todo, owed).row = fan[u].row
               /\ Looping(fan[u], todo, owed).todo = todo /\ Looping(fan[u], todo, owed).owed = owed
    BY TasksTyped DEF Looping
  <2>6. ASSUME NEW u \in DOMAIN fan, FanStep(u) \/ FanFail(u)
        PROVE  \/ RetryFan(u) \/ EndFan(u)
               \/ \E todo, owed \in SUBSET (Channel \X ChannelKind) :
                    /\ fan' = [fan EXCEPT ![u] = Looping(fan[u], todo, owed)]
                    /\ todo \cup owed \subseteq fan[u].todo \cup fan[u].owed \cup Recipients(fan[u].row)
    <3>1. /\ fan[u].todo \subseteq Channel \X ChannelKind
          /\ Recipients(fan[u].row) \subseteq Channel \X ChannelKind
      <4>1. DOMAIN channels \subseteq Channel /\ \A c \in DOMAIN channels : channels[c].kind \in ChannelKind
        BY DEF DifTypeOK, IsTable, ChannelRow
      <4> QED
        BY <4>1 DEF FanoutTask, Recipients, ActiveFor
    <3>2. CASE FanStart(u)
      BY <3>1, <3>2 DEF FanStart
    <3>3. CASE FanRecord(u)
      <4>1. PICK to \in fan[u].todo :
              \/ fan' = [fan EXCEPT ![u] = Looping(fan[u], fan[u].todo \ {to}, {})]
              \/ fan' = [fan EXCEPT ![u] = Looping(fan[u], fan[u].todo \ {to}, {to})]
              \/ RetryFan(u)
        BY <3>3 DEF FanRecord
      <4> QED
        BY <3>1, <4>1
    <3>4. CASE FanEnqueue(u)
      <4>1. fan' = [fan EXCEPT ![u] = Looping(fan[u], fan[u].todo, {})]
        BY <3>4 DEF FanEnqueue
      <4> DEFINE todo == fan[u].todo
      <4>2. /\ todo \in SUBSET (Channel \X ChannelKind) /\ {} \in SUBSET (Channel \X ChannelKind)
            /\ todo \cup {} \subseteq todo \cup fan[u].owed \cup Recipients(fan[u].row)
        BY <3>1
      <4>3. fan' = [fan EXCEPT ![u] = Looping(fan[u], todo, {})]
        BY <4>1
      <4> HIDE DEF todo
      <4>4. \E owed \in SUBSET (Channel \X ChannelKind) :
              /\ fan' = [fan EXCEPT ![u] = Looping(fan[u], todo, owed)]
              /\ todo \cup owed \subseteq todo \cup fan[u].owed \cup Recipients(fan[u].row)
        BY <4>2, <4>3
      <4> QED
        BY <4>2, <4>4 DEF todo
    <3>5. CASE FanFinish(u) \/ FanFail(u)
      BY <3>5 DEF FanFinish, FanFail
    <3> QED
      BY <2>6, <3>2, <3>3, <3>4, <3>5 DEF FanStep
  <2>7. ASSUME NEW u \in DOMAIN fan, FanStep(u) \/ FanFail(u)
        PROVE  \/ t \in DOMAIN fan /\ fan'[t] = fan[t]
               \/ \E f \in FanoutTask : /\ fan'[t] = f /\ f.row \in DOMAIN outbox
                                        /\ \A to \in f.todo \cup f.owed : Grounded(<<to[1], f.row>>)
    <3>1. CASE RetryFan(u) \/ EndFan(u)
      BY <3>1, <2>1, <2>3, <2>4
    <3>2. ASSUME NEW todo \in SUBSET (Channel \X ChannelKind),
                 NEW owed \in SUBSET (Channel \X ChannelKind),
                 fan' = [fan EXCEPT ![u] = Looping(fan[u], todo, owed)],
                 todo \cup owed \subseteq fan[u].todo \cup fan[u].owed \cup Recipients(fan[u].row)
          PROVE  \/ t \in DOMAIN fan /\ fan'[t] = fan[t]
                 \/ \E f \in FanoutTask : /\ fan'[t] = f /\ f.row \in DOMAIN outbox
                                          /\ \A to \in f.todo \cup f.owed : Grounded(<<to[1], f.row>>)
      <4>1. \A to \in todo \cup owed : Grounded(<<to[1], fan[u].row>>)
        BY <3>2, RecipientsGrounded
      <4> QED
        BY <3>2, <4>1, <2>5
    <3> QED
      BY <2>6, <2>7, <3>1, <3>2
  <2>8. \/ UNCHANGED fan
        \/ \E w \in Relay : RelayRow(w)
        \/ \E u \in DOMAIN fan : FanStep(u) \/ FanFail(u)
    <3>1. \A u \in FanTask : FanStep(u) \/ FanFail(u) => u \in DOMAIN fan
      BY DEF FanStep, FanStart, FanRecord, FanEnqueue, FanFinish, FanFail
    <3> QED
      BY <3>1 DEF vars, taskVars, DifNext, EditEvents, EditChannels, RelayStep, RelayClaim, RelayCommit,
         RelayAbort, DelStep, DelFetch, DelSend, DelSettle, DelRefused, DelFail,
         RetryReset, RetryEnqueue, RetryLost
  <2>9. ASSUME NEW w \in Relay, RelayRow(w)
        PROVE  \/ t \in DOMAIN fan /\ fan'[t] = fan[t]
               \/ \E f \in FanoutTask : /\ fan'[t] = f /\ f.row \in DOMAIN outbox
                                        /\ \A to \in f.todo \cup f.owed : Grounded(<<to[1], f.row>>)
    <3>1. 0 \in 0..FanoutMaxRetry
      BY DifusionConstants
    <3> QED
      BY <2>1, <2>2, <2>9, <3>1
  <2> QED
    BY <2>7, <2>8, <2>9
<1> QED
  BY <1>3, <1>4, <1>5 DEF FansGrounded

\* A row is inserted for a recipient that is grounded.
LEMMA RowsStep == ToldInv /\ [DifNext]_vars => RowsGrounded'
<1> SUFFICES ASSUME ToldInv, [DifNext]_vars PROVE RowsGrounded'
  OBVIOUS
<1>1. /\ DifTypeOK /\ DOMAIN broadcasts \subseteq Key /\ DOMAIN fan \subseteq FanTask
      /\ \A t \in DOMAIN fan : fan[t] \in FanoutTask
      /\ \A t \in DOMAIN del : del[t].key \in Key
  BY DEF ToldInv, HandInv, DifTypeOK, IsTable, DeliverTask
<1>2. \A k \in Key : (Grounded(k) => Grounded(k)') /\ (heard[k] > 0 => heard'[k] > 0)
  BY <1>1, GroundedStays
<1>3. ASSUME NEW k \in DOMAIN broadcasts',
             \/ k \in DOMAIN broadcasts /\ broadcasts'[k] = broadcasts[k]
             \/ k \in Key /\ Grounded(k) /\ (broadcasts'[k] = "sent" => heard[k] > 0)
      PROVE  Grounded(k)' /\ (broadcasts'[k] = "sent" => heard'[k] > 0)
  BY <1>1, <1>2, <1>3 DEF ToldInv, RowsGrounded
<1>4. ASSUME NEW k \in DOMAIN broadcasts'
      PROVE  \/ k \in DOMAIN broadcasts /\ broadcasts'[k] = broadcasts[k]
             \/ k \in Key /\ Grounded(k) /\ (broadcasts'[k] = "sent" => heard[k] > 0)
  <2> USE <1>1
  <2>1. CASE EditEvents
    BY <2>1 DEF EditEvents
  <2>2. ASSUME NEW t \in FanTask, FanRecord(t)
        PROVE  \/ k \in DOMAIN broadcasts /\ broadcasts'[k] = broadcasts[k]
               \/ k \in Key /\ Grounded(k) /\ broadcasts'[k] = "queued"
    <3>1. t \in DOMAIN fan
      BY <2>2 DEF FanRecord
    <3>2. PICK to \in fan[t].todo :
            UNCHANGED broadcasts \/ broadcasts' = Put(broadcasts, <<to[1], fan[t].row>>, "queued")
      BY <2>2 DEF FanRecord
    <3>3. Grounded(<<to[1], fan[t].row>>) /\ <<to[1], fan[t].row>> \in Key
      BY <3>1 DEF ToldInv, FansGrounded, FanoutTask, Key
    <3> QED
      BY <3>2, <3>3 DEF Put
  <2>3. ASSUME NEW t \in DelTask, DelSettle(t) \/ DelRefused(t)
        PROVE  \/ k \in DOMAIN broadcasts /\ broadcasts'[k] = broadcasts[k]
               \/ k \in Key /\ Grounded(k) /\ (broadcasts'[k] = "sent" => heard[k] > 0)
    <3>1. t \in DOMAIN del
      BY <2>3 DEF DelSettle, DelRefused
    <3>2. \/ Mark(del[t].key, "sent") /\ heard[del[t].key] > 0
          \/ Mark(del[t].key, "dead") \/ Mark(del[t].key, "failed")
      BY <2>3, <3>1 DEF DelSettle, DelRefused, ToldInv, TasksGrounded
    <3>3. Grounded(del[t].key)
      BY <3>1 DEF ToldInv, TasksGrounded
    <3> QED
      BY <3>1, <3>2, <3>3 DEF Mark
  <2>4. ASSUME NEW q \in DOMAIN broadcasts, RetryReset(q)
        PROVE  \/ k \in DOMAIN broadcasts /\ broadcasts'[k] = broadcasts[k]
               \/ k \in Key /\ Grounded(k) /\ broadcasts'[k] = "queued"
    BY <2>4 DEF RetryReset, ToldInv, RowsGrounded
  <2>5. CASE UNCHANGED broadcasts
    BY <2>5
  <2> QED
    BY <2>1, <2>2, <2>3, <2>4, <2>5 DEF vars, delVars, DifNext, EditChannels,
       RelayStep, RelayClaim, RelayRow, RelayCommit, RelayAbort,
       FanStep, FanStart, FanEnqueue, FanFinish, FanFail,
       DelStep, DelFetch, DelSend, DelFail, RetryEnqueue, RetryLost
<1> QED
  BY <1>3, <1>4 DEF RowsGrounded

\* A task is queued for a recipient that is grounded.
LEMMA TasksStep == ToldInv /\ [DifNext]_vars => TasksGrounded'
<1> SUFFICES ASSUME ToldInv, [DifNext]_vars PROVE TasksGrounded'
  OBVIOUS
<1>1. /\ DifTypeOK /\ DOMAIN fan \subseteq FanTask
      /\ \A t \in DOMAIN fan : fan[t] \in FanoutTask
      /\ \A t \in DOMAIN del : del[t].key \in Key
      /\ retrying \subseteq Key \X Queue
      /\ heard \in [Key -> Nat]
  BY DEF ToldInv, HandInv, DifTypeOK, IsTable, DeliverTask
<1>2. \A k \in Key : (Grounded(k) => Grounded(k)') /\ (heard[k] > 0 => heard'[k] > 0)
  BY <1>1, GroundedStays
<1>3. ASSUME NEW t \in DOMAIN del',
             \/ t \in DOMAIN del /\ del'[t] = del[t]
             \/ /\ del'[t].key \in Key /\ Grounded(del'[t].key)
                /\ del'[t].state = "accepted" => heard'[del'[t].key] > 0
      PROVE  Grounded(del[t].key)' /\ (del'[t].state = "accepted" => heard'[del'[t].key] > 0)
  <2>1. ASSUME NEW k \in Key, Grounded(k), k = del'[t].key PROVE Grounded(del[t].key)'
    <3>1. Grounded(k)'
      BY <1>2, <2>1
    <3> QED
      BY <2>1, <3>1 DEF Grounded, HeardAnnouncement, EventOf
  <2>2. /\ del'[t].key \in Key /\ Grounded(del'[t].key)
        /\ del'[t].state = "accepted" => heard'[del'[t].key] > 0
    BY <1>1, <1>2, <1>3 DEF ToldInv, TasksGrounded
  <2> QED
    BY <2>1, <2>2
<1>4. ASSUME NEW t \in DOMAIN del'
      PROVE  \/ t \in DOMAIN del /\ del'[t] = del[t]
             \/ /\ del'[t].key \in Key /\ Grounded(del'[t].key)
                /\ del'[t].state = "accepted" => heard'[del'[t].key] > 0
  <2> USE <1>1
  <2>1. ASSUME NEW k \in Key, NEW queue, EnqueueDelivery(k, queue), Grounded(k)
        PROVE  \/ t \in DOMAIN del /\ del'[t] = del[t]
               \/ del'[t].key \in Key /\ Grounded(del'[t].key) /\ del'[t].state = "pending"
    <3>1. PICK u : del' = Put(del, u, Delivery(k, queue, 0, "pending"))
      BY <2>1 DEF EnqueueDelivery
    <3>2. (t \in DOMAIN del /\ del'[t] = del[t]) \/ del'[t] = Delivery(k, queue, 0, "pending")
      BY <3>1 DEF Put
    <3> QED
      BY <2>1, <3>2 DEF Delivery
  <2>2. CASE \E u \in FanTask : FanEnqueue(u)
    <3>0. PICK u \in DOMAIN fan : FanEnqueue(u)
      BY <2>2 DEF FanEnqueue
    <3>1. PICK to \in fan[u].owed : EnqueueDelivery(<<to[1], fan[u].row>>, QueueFor(to[2]))
      BY <3>0 DEF FanEnqueue
    <3>2. Grounded(<<to[1], fan[u].row>>) /\ <<to[1], fan[u].row>> \in Key
      BY DEF ToldInv, FansGrounded, FanoutTask, Key
    <3> QED
      BY <2>1, <3>1, <3>2
  <2>3. CASE RetryEnqueue
    <3>1. PICK p \in retrying : EnqueueDelivery(p[1], p[2])
      BY <2>3 DEF RetryEnqueue
    <3> QED
      BY <2>1, <3>1 DEF ToldInv, RetriesGrounded
  <2>4. ASSUME NEW u \in DOMAIN del, RetryDel(u) \/ EndDel(u)
        PROVE  \/ t \in DOMAIN del /\ del'[t] = del[t]
               \/ del'[t].key = del[u].key /\ del'[t].state \in {"pending", "archived"}
    BY <2>4 DEF RetryDel, EndDel, Delivery, Move, Without
  <2>5. ASSUME NEW u \in DOMAIN del, NEW s \in AtWork, Step(u, s)
        PROVE  \/ t \in DOMAIN del /\ del'[t] = del[t]
               \/ del'[t].key = del[u].key /\ del'[t].state = s
    BY <2>5 DEF Step, Delivery, Move
  <2>6. ASSUME NEW u \in DelTask, DelStep(u) \/ DelFail(u)
        PROVE  /\ u \in DOMAIN del
               /\ \/ RetryDel(u) \/ EndDel(u)
                  \/ \E s \in AtWork : Step(u, s) /\ (s = "accepted" => heard'[del[u].key] > 0)
    <3>1. u \in DOMAIN del
      BY <2>6 DEF DelStep, DelFetch, DelSend, DelSettle, DelRefused, DelFail
    <3>2. CASE DelSend(u)
      <4>1. \/ Step(u, "skipped") \/ Step(u, "refused")
            \/ Step(u, "accepted") /\ heard' = [heard EXCEPT ![del[u].key] = @ + 1]
        BY <3>2 DEF DelSend
      <4> QED
        BY <3>1, <4>1 DEF AtWork
    <3>3. CASE DelFetch(u)
      BY <3>1, <3>3 DEF DelFetch, AtWork
    <3> QED
      BY <2>6, <3>1, <3>2, <3>3 DEF DelStep, DelSettle, DelRefused, DelFail
  <2>7. CASE \E u \in DelTask : DelStep(u) \/ DelFail(u)
    <3>1. PICK u \in DelTask : DelStep(u) \/ DelFail(u)
      BY <2>7
    <3>2. u \in DOMAIN del /\ Grounded(del[u].key)
      BY <2>6, <3>1 DEF ToldInv, TasksGrounded
    <3>3. CASE RetryDel(u) \/ EndDel(u)
      BY <3>2, <3>3, <2>4
    <3>4. ASSUME NEW s \in AtWork, Step(u, s), s = "accepted" => heard'[del[u].key] > 0
          PROVE  \/ t \in DOMAIN del /\ del'[t] = del[t]
                 \/ /\ del'[t].key \in Key /\ Grounded(del'[t].key)
                    /\ del'[t].state = "accepted" => heard'[del'[t].key] > 0
      BY <3>2, <3>4, <2>5
    <3> QED
      BY <2>6, <3>1, <3>3, <3>4
  <2>8. CASE UNCHANGED del
    BY <2>8
  <2> QED
    BY <2>2, <2>3, <2>7, <2>8 DEF vars, delVars, DifNext, EditEvents, EditChannels,
       RelayStep, RelayClaim, RelayRow, RelayCommit, RelayAbort,
       FanStep, FanStart, FanRecord, FanFinish, FanFail, RetryReset, RetryLost
<1> QED
  BY <1>3, <1>4 DEF TasksGrounded

\* What is retried by hand or heard was a row or a task.
LEMMA HeardStep == ToldInv /\ [DifNext]_vars => RetriesGrounded' /\ HeardGrounded'
<1> SUFFICES ASSUME ToldInv, [DifNext]_vars PROVE RetriesGrounded' /\ HeardGrounded'
  OBVIOUS
<1>1. /\ DifTypeOK /\ DOMAIN broadcasts \subseteq Key
      /\ \A t \in DOMAIN del : del[t].key \in Key
      /\ retrying \subseteq Key \X Queue
      /\ heard \in [Key -> Nat]
  BY DEF ToldInv, HandInv, DifTypeOK, IsTable, DeliverTask
<1>2. \A k \in Key : Grounded(k) => Grounded(k)'
  BY <1>1, GroundedStays
<1>3. RetriesGrounded'
  <2>1. \/ retrying' \subseteq retrying
        \/ \E k \in DOMAIN broadcasts : retrying' = retrying \cup {<<k, QueueFor(channels[k[1]].kind)>>}
    BY DEF vars, retryVars, DifNext, EditEvents, EditChannels,
       RelayStep, RelayClaim, RelayRow, RelayCommit, RelayAbort,
       FanStep, FanStart, FanRecord, FanEnqueue, FanFinish, FanFail,
       DelStep, DelFetch, DelSend, DelSettle, DelRefused, DelFail, RetryReset, RetryEnqueue, RetryLost
  <2>2. \A p \in retrying' : p[1] \in Key /\ Grounded(p[1])
    BY <1>1, <2>1 DEF ToldInv, RetriesGrounded, RowsGrounded
  <2> QED
    BY <1>2, <2>2 DEF RetriesGrounded
<1>4. HeardGrounded'
  <2>1. \/ UNCHANGED heard
        \/ \E t \in DOMAIN del : heard' = [heard EXCEPT ![del[t].key] = @ + 1]
    BY DEF vars, delVars, DifNext, EditEvents, EditChannels,
       RelayStep, RelayClaim, RelayRow, RelayCommit, RelayAbort,
       FanStep, FanStart, FanRecord, FanEnqueue, FanFinish, FanFail,
       DelStep, DelFetch, DelSend, DelSettle, DelRefused, DelFail, RetryReset, RetryEnqueue, RetryLost
  <2>2. \A k \in Key : heard'[k] > 0 => Grounded(k)
    BY <1>1, <2>1 DEF ToldInv, HeardGrounded, TasksGrounded
  <2> QED
    BY <1>2, <2>2 DEF HeardGrounded
<1> QED
  BY <1>3, <1>4

\* At the start nothing is on its way.
LEMMA ToldInit == DifInit => ToldInv
<1> SUFFICES ASSUME DifInit PROVE ToldInv
  OBVIOUS
<1>1. HandInv
  BY DifTypeInit DEF DifInit, HandInv
<1>2. DOMAIN fan = {} /\ DOMAIN broadcasts = {} /\ DOMAIN del = {} /\ retrying = {}
      /\ \A k \in Key : heard[k] = 0
  BY DEF DifInit
<1> QED
  BY <1>1, <1>2 DEF ToldInv, FansGrounded, RowsGrounded, TasksGrounded, RetriesGrounded, HeardGrounded

\* The parts together.
LEMMA ToldStep == ToldInv /\ [DifNext]_vars => ToldInv'
  BY HandStep, FansStep, RowsStep, TasksStep, HeardStep DEF ToldInv

(***************************************************************************)
(* Nobody learns of an event through its retraction, whatever fails, is    *)
(* replayed, retried by hand or edited meanwhile.                          *)
(***************************************************************************)
THEOREM OnlyTheToldHearARetraction == DifSpec => []RetractionOnlyToTheTold
<1>1. ToldInv => RetractionOnlyToTheTold
  BY DEF ToldInv, HeardGrounded, Grounded, RetractionOnlyToTheTold
<1> QED
  BY <1>1, ToldInit, ToldStep, PTL DEF DifSpec

-----------------------------------------------------------------------------
(***************************************************************************)
(* No message is repeated, and the rows of the broadcasts table tell what  *)
(* happened: the engine implements Ledger.tla.                             *)
(***************************************************************************)

\* The deliver tasks of a key, and the fanouts that recorded it and have not
\* queued it yet.
Tasks(k) == {t \in DOMAIN del : del[t].key = k}
Owers(k) == {t \in DOMAIN fan : fan[t].row = k[2] /\ \E to \in fan[t].owed : to[1] = k[1]}

\* Its event was hard-deleted: its row went, and never comes back.
Gone(k) == k[2] \in DOMAIN outbox /\ EventOf(k) \in deleted

\* What was done about a key left a row, unless its event is gone.
Traced(k) == Owers(k) # {} \/ Tasks(k) # {} \/ heard[k] > 0 => k \in DOMAIN broadcasts \/ Gone(k)

\* A message passes through one hand after another: a fanout's, a task's, and
\* then it was heard.
OneHand(k) ==
  /\ \A t, u \in Owers(k) : t = u
  /\ \A t, u \in Tasks(k) : t = u
  /\ Owers(k) # {} => Tasks(k) = {} /\ heard[k] = 0
  /\ heard[k] <= 1

\* A task at work is about a row not sent yet, and not heard of before the
\* sender takes it.
AtWorkOnce(k) ==
  \A t \in Tasks(k) : del[t].state \in AtWork =>
    /\ k \in DOMAIN broadcasts => broadcasts[k] # "sent"
    /\ del[t].state # "accepted" => heard[k] = 0

\* What was heard is recorded, or about to be.
Recorded(k) ==
  k \in DOMAIN broadcasts /\ heard[k] > 0 => broadcasts[k] = "sent" \/ BeingRecorded(k)

Once(k) == Traced(k) /\ OneHand(k) /\ AtWorkOnce(k) /\ Recorded(k)

OnceInv ==
  /\ ToldInv /\ LogInv
  /\ \A p \in retrying : p[1] \in excused
  /\ \A k \in Key \ excused : Once(k)

-----------------------------------------------------------------------------
\* The row of k is as it was, or went with its event.
RowKept(k) ==
  /\ k \in DOMAIN broadcasts' => k \in DOMAIN broadcasts /\ broadcasts'[k] = broadcasts[k]
  /\ k \in DOMAIN broadcasts => k \in DOMAIN broadcasts' \/ Gone(k)'

TasksKept(k) == Tasks(k)' = Tasks(k) /\ \A t \in Tasks(k) : del'[t] = del[t]

(***************************************************************************)
(* A step that takes a key out of nobody's hand but a fanout's keeps it    *)
(* once.                                                                   *)
(***************************************************************************)
LEMMA OnceKept ==
  ASSUME NEW k \in Key, Once(k), Gone(k) => Gone(k)', RowKept(k), TasksKept(k),
         Owers(k)' \subseteq Owers(k), heard'[k] = heard[k]
  PROVE  Once(k)'
<1> USE DEF TasksKept, RowKept
<1>1. Traced(k)'
  BY DEF Once, Traced
<1>2. OneHand(k)'
  BY DEF Once, OneHand
<1>3. AtWorkOnce(k)'
  BY DEF Once, AtWorkOnce
<1>4. Recorded(k)'
  <2>1. BeingRecorded(k) => BeingRecorded(k)'
    BY DEF BeingRecorded, Tasks
  <2> QED
    BY <2>1 DEF Once, Recorded
<1> QED
  BY <1>1, <1>2, <1>3, <1>4 DEF Once

(***************************************************************************)
(* A deleted event stays deleted, and a row goes only with its event.      *)
(***************************************************************************)
LEMMA GoneStays ==
  ASSUME OnceInv, [DifNext]_vars
  PROVE  \A k \in Key : Gone(k) => Gone(k)'
<1>1. LogTypeOK /\ deleted \subseteq deleted'
  BY StepOfTheLog DEF OnceInv, LogInv, LogNext, logVars,
     CreateEvent, UpdateEvent, PublishEvent, UnpublishEvent, DeleteEvent
<1> QED
  BY <1>1, StepOfTheLog, OutboxGrows DEF Gone, EventOf

\* An edit of the calendar touches rows only by the cascade of a delete.
LEMMA EditKeepsOnce ==
  ASSUME OnceInv, EditEvents, NEW k \in Key \ excused
  PROVE  Once(k)'
<1>1. /\ UNCHANGED <<fan, del, heard, excused>>
      /\ broadcasts' = [q \in {b \in DOMAIN broadcasts : EventOf(b) \in DOMAIN events'} |-> broadcasts[q]]
  BY DEF EditEvents, taskVars
<1>2. Gone(k) => Gone(k)'
  BY GoneStays DEF DifNext
<1>3. RowKept(k)
  <2>1. ASSUME k \in DOMAIN broadcasts, k \notin DOMAIN broadcasts' PROVE Gone(k)'
    <3>1. k[2] \in DOMAIN outbox /\ EventOf(k) \notin DOMAIN events'
      BY <1>1, <2>1 DEF OnceInv, ToldInv, RowsGrounded, Grounded
    <3>2. [LogNext]_logVars /\ LogTypeOK
      BY DEF EditEvents, OnceInv, LogInv
    <3>3. k[2] \in DOMAIN outbox' /\ EventOf(k)' = EventOf(k)
      BY <3>1, <3>2, OutboxGrows DEF EventOf
    <3>4. UnusedHasNoRow'
      BY <3>2, LogInvStep DEF OnceInv, LogInv
    <3> QED
      BY <3>1, <3>3, <3>4 DEF UnusedHasNoRow, Gone, EventOf
  <2> QED
    BY <1>1, <2>1 DEF RowKept
<1>4. Tasks(k)' = Tasks(k) /\ Owers(k)' = Owers(k)
  BY <1>1 DEF Tasks, Owers
<1> QED
  BY <1>1, <1>2, <1>3, <1>4, OnceKept DEF OnceInv, TasksKept

-----------------------------------------------------------------------------
(* The relay and the fanout.                                               *)

\* What a relay hands out is a fanout that owes nobody yet.
LEMMA RelayKeepsOnce ==
  ASSUME OnceInv, NEW w \in Relay, RelayStep(w) \/ RelayAbort(w), NEW k \in Key \ excused
  PROVE  Once(k)'
<1>1. UNCHANGED <<logVars, broadcasts, del, heard, excused>>
  BY DEF RelayStep, RelayClaim, RelayRow, RelayCommit, RelayAbort, taskVars, delVars
<1>2. Owers(k)' \subseteq Owers(k)
  <2>1. \/ UNCHANGED fan
        \/ \E t \in FanTask \ DOMAIN fan : \E r : fan' = Put(fan, t, Waiting(r, 0))
    BY DEF RelayStep, RelayClaim, RelayRow, RelayCommit, RelayAbort, taskVars
  <2>2. ASSUME NEW t \in FanTask \ DOMAIN fan, NEW r, fan' = Put(fan, t, Waiting(r, 0))
        PROVE  Owers(k)' \subseteq Owers(k)
    BY <2>2 DEF Owers, Put, Waiting
  <2> QED
    BY <2>1, <2>2 DEF Owers
<1>3. Gone(k)' = Gone(k) /\ RowKept(k) /\ TasksKept(k)
  BY <1>1 DEF Gone, EventOf, RowKept, TasksKept, Tasks, logVars
<1> QED
  BY <1>1, <1>2, <1>3, OnceKept DEF OnceInv

(***************************************************************************)
(* A handler that ends, fails or starts owes nobody anything.              *)
(***************************************************************************)
LEMMA OwingNobody ==
  ASSUME NEW t \in DOMAIN fan, NEW k,
         \/ RetryFan(t) \/ EndFan(t)
         \/ \E todo : fan' = [fan EXCEPT ![t] = Looping(fan[t], todo, {})]
  PROVE  Owers(k)' \subseteq Owers(k) \ {t}
<1>1. CASE RetryFan(t)
  BY <1>1 DEF RetryFan, Waiting, Shelved, Owers
<1>2. CASE EndFan(t)
  BY <1>1, <1>2 DEF EndFan, Without, Owers
<1>3. CASE \E todo : fan' = [fan EXCEPT ![t] = Looping(fan[t], todo, {})]
  BY <1>3 DEF Looping, Owers
<1> QED
  BY <1>1, <1>2, <1>3

(***************************************************************************)
(* CreateBroadcast records a key nobody has had in hand yet.               *)
(***************************************************************************)
LEMMA RecordOnce ==
  ASSUME OnceInv, NEW t \in DOMAIN fan, NEW to \in fan[t].todo, NEW k \in Key \ excused,
         UNCHANGED <<logVars, del, heard, excused>>,
         <<to[1], fan[t].row>> \notin DOMAIN broadcasts, EventOf(<<to[1], fan[t].row>>) \in DOMAIN events,
         broadcasts' = Put(broadcasts, <<to[1], fan[t].row>>, "queued"),
         \E todo : fan' = [fan EXCEPT ![t] = Looping(fan[t], todo, {to})]
  PROVE  Once(k)'
<1> DEFINE new == <<to[1], fan[t].row>>
<1>1. Once(k) /\ Gone(k)' = Gone(k) /\ TasksKept(k)
  BY DEF OnceInv, Gone, EventOf, TasksKept, Tasks, logVars
<1>2. CASE k # new
  <2>1. RowKept(k)
    BY <1>2 DEF RowKept, Put
  <2>2. Owers(k)' \subseteq Owers(k)
    BY <1>2 DEF Owers, Looping, Key
  <2> QED
    BY <1>1, <2>1, <2>2, OnceKept
<1>3. CASE k = new
  <2>1. ~Gone(k)
    BY <1>3 DEF OnceInv, LogInv, LogTypeOK, Gone
  <2>2. Owers(k) = {} /\ Tasks(k) = {} /\ heard[k] = 0
    BY <1>1, <1>3, <2>1 DEF Once, Traced, OnceInv, ToldInv, HandInv, DifTypeOK
  <2>3. k \in DOMAIN broadcasts' /\ Tasks(k)' = {} /\ heard'[k] = 0 /\ Owers(k)' \subseteq {t}
    BY <1>1, <1>3, <2>2 DEF TasksKept, Put, Owers, Looping
  <2> QED
    BY <2>3 DEF Once, Traced, OneHand, AtWorkOnce, Recorded
<1> QED
  BY <1>2, <1>3

(***************************************************************************)
(* A task put in the queue for a key that a fanout owed takes it over.     *)
(***************************************************************************)
LEMMA QueueOnce ==
  ASSUME OnceInv, NEW t \in DOMAIN fan, NEW to \in fan[t].owed, NEW k \in Key \ excused,
         FanEnqueue(t), EnqueueDelivery(<<to[1], fan[t].row>>, QueueFor(to[2]))
  PROVE  Once(k)'
<1> DEFINE new == <<to[1], fan[t].row>>
<1>1. /\ UNCHANGED <<logVars, broadcasts, heard, excused>>
      /\ fan' = [fan EXCEPT ![t] = Looping(fan[t], fan[t].todo, {})]
  BY DEF FanEnqueue
<1>2. Owers(k)' \subseteq Owers(k) \ {t}
  BY <1>1, OwingNobody
<1>3. Once(k) /\ Gone(k)' = Gone(k) /\ RowKept(k)
  BY <1>1 DEF OnceInv, Gone, EventOf, RowKept, logVars
<1>4. PICK u \in DelTask \ DOMAIN del : del' = Put(del, u, Delivery(new, QueueFor(to[2]), 0, "pending"))
  BY DEF EnqueueDelivery
<1>5. CASE k # new
  <2>1. TasksKept(k)
    BY <1>4, <1>5 DEF TasksKept, Tasks, Put, Delivery
  <2> QED
    BY <1>1, <1>2, <1>3, <2>1, OnceKept
<1>6. CASE k = new
  <2>1. t \in Owers(k)
    BY <1>6 DEF Owers
  <2>2. /\ Owers(k)' = {} /\ Tasks(k) = {} /\ heard[k] = 0 /\ heard'[k] = 0
        /\ k \in DOMAIN broadcasts \/ Gone(k)
    BY <1>1, <1>2, <1>3, <2>1 DEF Once, OneHand, Traced
  <2>3. Tasks(k)' = {u} /\ del'[u].state = "pending"
    BY <1>4, <1>6, <2>2 DEF Tasks, Put, Delivery
  <2>4. Traced(k)'
    BY <1>1, <1>3, <2>2 DEF Traced
  <2>5. OneHand(k)' /\ AtWorkOnce(k)' /\ Recorded(k)'
    BY <2>2, <2>3 DEF OneHand, AtWorkOnce, AtWork, Recorded
  <2> QED
    BY <2>4, <2>5 DEF Once
<1> QED
  BY <1>5, <1>6

\* A fanout owes what it just inserted, and queues what it owes.
LEMMA FanKeepsOnce ==
  ASSUME OnceInv, NEW t \in FanTask, FanStep(t) \/ FanFail(t), NEW k \in Key \ excused
  PROVE  Once(k)'
<1> USE DEF delVars
<1>1. t \in DOMAIN fan /\ UNCHANGED <<logVars, heard, excused>>
  BY DEF FanStep, FanStart, FanRecord, FanEnqueue, FanFinish, FanFail
<1>2. Once(k) /\ Gone(k)' = Gone(k)
  BY <1>1 DEF OnceInv, Gone, EventOf, logVars
<1>3. CASE UNCHANGED <<broadcasts, del>> /\ Owers(k)' \subseteq Owers(k) \ {t}
  BY <1>1, <1>2, <1>3, OnceKept DEF RowKept, TasksKept, Tasks
<1>4. CASE FanStart(t) \/ FanFinish(t) \/ FanFail(t)
  BY <1>1, <1>3, <1>4, OwingNobody DEF FanStart, FanFinish, FanFail
<1>5. CASE FanRecord(t)
  <2>1. PICK to \in fan[t].todo :
          \/ /\ UNCHANGED broadcasts
             /\ \/ RetryFan(t)
                \/ fan' = [fan EXCEPT ![t] = Looping(fan[t], fan[t].todo \ {to}, {})]
          \/ /\ <<to[1], fan[t].row>> \notin DOMAIN broadcasts
             /\ EventOf(<<to[1], fan[t].row>>) \in DOMAIN events
             /\ broadcasts' = Put(broadcasts, <<to[1], fan[t].row>>, "queued")
             /\ fan' = [fan EXCEPT ![t] = Looping(fan[t], fan[t].todo \ {to}, {to})]
    BY <1>5 DEF FanRecord
  <2>2. UNCHANGED del
    BY <1>5 DEF FanRecord
  <2> QED
    BY <1>1, <1>3, <2>1, <2>2, OwingNobody, RecordOnce
<1>6. CASE FanEnqueue(t)
  <2>1. PICK to \in fan[t].owed : EnqueueDelivery(<<to[1], fan[t].row>>, QueueFor(to[2]))
    BY <1>6 DEF FanEnqueue
  <2> QED
    BY <1>1, <1>6, <2>1, QueueOnce
<1> QED
  BY <1>4, <1>5, <1>6 DEF FanStep

-----------------------------------------------------------------------------
(* The deliver handler.                                                    *)

\* Task t was taken further, given back to asynq, or taken off its hands.
HandedOver(t) ==
  /\ \A u : u # t => (u \in DOMAIN del' <=> u \in DOMAIN del)
  /\ \A u \in DOMAIN del : u # t => del'[u] = del[u]
  /\ t \in DOMAIN del' => del'[t].key = del[t].key

(***************************************************************************)
(* What becomes of a task: asynq drops it, tries it again or shelves it,   *)
(* or its handler goes on.                                                 *)
(***************************************************************************)
LEMMA TaskMoves ==
  ASSUME NEW t \in DOMAIN del
  PROVE  /\ RetryDel(t) \/ EndDel(t) =>
              HandedOver(t) /\ (t \in DOMAIN del' => del'[t].state \in {"pending", "archived"})
         /\ \A s : Step(t, s) => HandedOver(t) /\ t \in DOMAIN del' /\ del'[t].state = s
<1>1. ASSUME RetryDel(t)
      PROVE  HandedOver(t) /\ del'[t].state \in {"pending", "archived"}
  BY <1>1 DEF RetryDel, HandedOver, Delivery, Move
<1>2. ASSUME del' = Without(del, t) PROVE HandedOver(t) /\ t \notin DOMAIN del'
  BY <1>2 DEF Without, HandedOver
<1>3. ASSUME NEW s, Step(t, s) PROVE HandedOver(t) /\ t \in DOMAIN del' /\ del'[t].state = s
  BY <1>3 DEF Step, HandedOver, Delivery, Move
<1> QED
  BY <1>1, <1>2, <1>3 DEF EndDel

(***************************************************************************)
(* A delivery disturbs no other key.                                       *)
(***************************************************************************)
LEMMA OthersKept ==
  ASSUME OnceInv, NEW t \in DOMAIN del, HandedOver(t), UNCHANGED <<logVars, fan>>,
         UNCHANGED broadcasts \/ \E s : Mark(del[t].key, s),
         UNCHANGED heard \/ heard' = [heard EXCEPT ![del[t].key] = @ + 1],
         NEW k \in Key \ excused, k # del[t].key
  PROVE  Once(k)'
<1>1. Once(k) /\ Gone(k)' = Gone(k) /\ Owers(k)' = Owers(k)
  BY DEF OnceInv, Gone, EventOf, Owers, logVars
<1>2. RowKept(k)
  BY DEF RowKept, Mark
<1>3. TasksKept(k)
  BY DEF TasksKept, Tasks, HandedOver
<1>4. heard'[k] = heard[k]
  BY DEF OnceInv, ToldInv, HandInv, DifTypeOK
<1> QED
  BY <1>1, <1>2, <1>3, <1>4, OnceKept

(***************************************************************************)
(* A delivery keeps its own key once: it was in this hand alone.           *)
(***************************************************************************)
LEMMA OwnKept ==
  ASSUME OnceInv, NEW t \in DOMAIN del, HandedOver(t), UNCHANGED <<logVars, fan>>,
         NEW k \in Key \ excused, k = del[t].key,
         k \in DOMAIN broadcasts' <=> k \in DOMAIN broadcasts,
         heard'[k] \in {0, 1},
         t \in DOMAIN del' /\ del'[t].state \in AtWork =>
           /\ k \in DOMAIN broadcasts' => broadcasts'[k] # "sent"
           /\ del'[t].state # "accepted" => heard'[k] = 0,
         k \in DOMAIN broadcasts' /\ heard'[k] > 0 =>
           broadcasts'[k] = "sent" \/ (t \in DOMAIN del' /\ del'[t].state = "accepted")
  PROVE  Once(k)'
<1>1. Once(k) /\ t \in Tasks(k)
  BY DEF OnceInv, Tasks
<1>2. Owers(k) = {} /\ Owers(k)' = {} /\ Tasks(k) = {t} /\ (k \in DOMAIN broadcasts \/ Gone(k))
  <2>1. Owers(k)' = Owers(k)
    BY DEF Owers
  <2> QED
    BY <1>1, <2>1 DEF Once, OneHand, Traced
<1>3. Tasks(k)' \subseteq {t} /\ Gone(k)' = Gone(k)
  BY <1>2 DEF Tasks, HandedOver, Gone, EventOf, logVars
<1>4. Traced(k)' /\ OneHand(k)'
  BY <1>2, <1>3 DEF Traced, OneHand
<1>5. AtWorkOnce(k)'
  BY <1>3 DEF AtWorkOnce, Tasks
<1>6. Recorded(k)'
  BY DEF Recorded, BeingRecorded, HandedOver
<1> QED
  BY <1>4, <1>5, <1>6 DEF Once

\* A deliver task hears once, for the row it holds, and records it.
LEMMA DelKeepsOnce ==
  ASSUME OnceInv, NEW t \in DelTask, DelStep(t) \/ DelFail(t), NEW k \in Key \ excused'
  PROVE  Once(k)'
<1>1. t \in DOMAIN del /\ UNCHANGED <<logVars, fan>> /\ k \in Key \ excused
  BY DEF DelStep, DelFetch, DelSend, DelSettle, DelRefused, DelFail, taskVars
<1>2. Once(k)
  BY <1>1 DEF OnceInv
<1>3. /\ HandedOver(t)
      /\ UNCHANGED broadcasts \/ \E s : Mark(del[t].key, s)
      /\ UNCHANGED heard \/ heard' = [heard EXCEPT ![del[t].key] = @ + 1]
  BY <1>1, TaskMoves DEF DelStep, DelFetch, DelSend, DelSettle, DelRefused, DelFail
<1>4. CASE k # del[t].key
  BY <1>1, <1>3, <1>4, OthersKept
<1>5. CASE k = del[t].key
  <2>1. /\ t \in Tasks(k) /\ \A u \in Tasks(k) : u = t
        /\ heard[k] \in {0, 1} /\ heard \in [Key -> Nat]
    BY <1>1, <1>2, <1>5 DEF Once, OneHand, Tasks, OnceInv, ToldInv, HandInv, DifTypeOK
  <2>2. /\ del[t].state \in AtWork =>
             /\ k \in DOMAIN broadcasts => broadcasts[k] # "sent"
             /\ del[t].state # "accepted" => heard[k] = 0
        /\ k \in DOMAIN broadcasts /\ heard[k] > 0 =>
             broadcasts[k] = "sent" \/ del[t].state = "accepted"
    BY <1>2, <2>1 DEF Once, AtWorkOnce, Recorded, BeingRecorded, Tasks
  <2> USE <1>1, <1>3, <1>5, <2>1, <2>2, TaskMoves, OwnKept
  <2>3. CASE DelFetch(t)
    BY <2>3 DEF DelFetch, AtWork
  <2>4. CASE DelSend(t)
    BY <2>4 DEF DelSend, AtWork
  <2>5. CASE DelSettle(t)
    BY <2>5 DEF DelSettle, Mark, AtWork
  <2>6. CASE DelRefused(t)
    BY <2>6 DEF DelRefused, Mark, AtWork
  <2>7. CASE DelFail(t)
    BY <2>7 DEF DelFail, AtWork
  <2> QED
    BY <2>3, <2>4, <2>5, <2>6, <2>7 DEF DelStep
<1> QED
  BY <1>4, <1>5

-----------------------------------------------------------------------------
(* The rest of the engine, and the invariant.                              *)

\* The retry button excuses the row it resets and touches no other.
LEMMA ResetKeepsOnce ==
  ASSUME OnceInv, NEW q \in DOMAIN broadcasts, RetryReset(q), NEW k \in Key \ excused'
  PROVE  Once(k)'
<1>1. /\ UNCHANGED <<logVars, fan, del, heard>> /\ excused' = excused \cup {q}
      /\ broadcasts' = [broadcasts EXCEPT ![q] = "queued"]
  BY DEF RetryReset, taskVars
<1>2. k \in Key \ excused /\ k # q
  BY <1>1
<1>3. Gone(k)' = Gone(k) /\ RowKept(k) /\ TasksKept(k) /\ Owers(k)' = Owers(k)
  BY <1>1, <1>2 DEF Gone, EventOf, RowKept, TasksKept, Tasks, Owers, logVars
<1> QED
  BY <1>1, <1>2, <1>3, OnceKept DEF OnceInv

\* The second half of a manual retry queues an excused row.
LEMMA RequeueKeepsOnce ==
  ASSUME OnceInv, RetryEnqueue, NEW k \in Key \ excused
  PROVE  Once(k)'
<1>1. UNCHANGED <<logVars, fan, broadcasts, heard, excused>>
  BY DEF RetryEnqueue, taskVars
<1>2. PICK p \in retrying : EnqueueDelivery(p[1], p[2])
  BY DEF RetryEnqueue
<1>3. PICK u \in DelTask \ DOMAIN del : del' = Put(del, u, Delivery(p[1], p[2], 0, "pending"))
  BY <1>2 DEF EnqueueDelivery
<1>4. TasksKept(k)
  BY <1>3 DEF OnceInv, TasksKept, Tasks, Put, Delivery
<1>5. Gone(k)' = Gone(k) /\ RowKept(k) /\ Owers(k)' = Owers(k)
  BY <1>1 DEF Gone, EventOf, RowKept, Owers, logVars
<1> QED
  BY <1>1, <1>4, <1>5, OnceKept DEF OnceInv

\* What is left (channels, idle tasks, lost retries) touches nothing here.
LEMMA IdleKeepsOnce ==
  ASSUME OnceInv, UNCHANGED <<logVars, fan, del, broadcasts, heard, excused>>, NEW k \in Key \ excused
  PROVE  Once(k)'
<1>1. Gone(k)' = Gone(k) /\ RowKept(k) /\ TasksKept(k) /\ Owers(k)' = Owers(k)
  BY DEF Gone, EventOf, RowKept, TasksKept, Tasks, Owers, logVars
<1> QED
  BY <1>1, OnceKept DEF OnceInv

\* Every step keeps every key once.
LEMMA OnceStep == OnceInv /\ [DifNext]_vars => OnceInv'
<1> SUFFICES ASSUME OnceInv, [DifNext]_vars PROVE OnceInv'
  OBVIOUS
<1>1. ToldInv'
  BY ToldStep DEF OnceInv
<1>2. LogInv'
  BY StepOfTheLog, LogInvStep DEF OnceInv
<1>3. excused \subseteq excused' /\ \A p \in retrying' : p[1] \in excused'
  <2>1. CASE \E k \in DOMAIN broadcasts : RetryReset(k)
    BY <2>1 DEF OnceInv, RetryReset
  <2>2. CASE excused \subseteq excused' /\ retrying' \subseteq retrying
    BY <2>2 DEF OnceInv
  <2> QED
    BY <2>1, <2>2 DEF vars, delVars, retryVars, DifNext, EditEvents, EditChannels,
       RelayStep, RelayClaim, RelayRow, RelayCommit, RelayAbort,
       FanStep, FanStart, FanRecord, FanEnqueue, FanFinish, FanFail,
       DelStep, DelFetch, DelSend, DelSettle, DelRefused, DelFail, RetryEnqueue, RetryLost
<1>4. ASSUME NEW k \in Key \ excused' PROVE Once(k)'
  <2>1. k \in Key \ excused
    BY <1>3
  <2>2. CASE EditEvents
    BY <2>1, <2>2, EditKeepsOnce
  <2>3. CASE \E w \in Relay : RelayStep(w) \/ RelayAbort(w)
    BY <2>1, <2>3, RelayKeepsOnce
  <2>4. CASE \E t \in FanTask : FanStep(t) \/ FanFail(t)
    BY <2>1, <2>4, FanKeepsOnce
  <2>5. CASE \E t \in DelTask : DelStep(t) \/ DelFail(t)
    BY <2>5, DelKeepsOnce
  <2>6. CASE \E q \in DOMAIN broadcasts : RetryReset(q)
    BY <2>6, ResetKeepsOnce
  <2>7. CASE RetryEnqueue
    BY <2>1, <2>7, RequeueKeepsOnce
  <2>8. CASE EditChannels \/ RetryLost \/ UNCHANGED vars
    BY <2>1, <2>8, IdleKeepsOnce DEF EditChannels, RetryLost, vars, taskVars, delVars
  <2> QED
    BY <2>2, <2>3, <2>4, <2>5, <2>6, <2>7, <2>8 DEF DifNext
<1> QED
  BY <1>1, <1>2, <1>3, <1>4 DEF OnceInv

\* At the start nobody owes, holds or heard anything.
LEMMA OnceInit == DifInit => OnceInv
<1> SUFFICES ASSUME DifInit PROVE OnceInv
  OBVIOUS
<1>1. ToldInv
  BY ToldInit
<1>2. LogInv
  BY LogInvInit DEF DifInit
<1>3. ASSUME NEW k \in Key PROVE Once(k)
  <2>1. Owers(k) = {} /\ Tasks(k) = {} /\ heard[k] = 0
    BY DEF DifInit, Owers, Tasks
  <2> QED
    BY <2>1 DEF Once, Traced, OneHand, AtWorkOnce, Recorded
<1> QED
  BY <1>1, <1>2, <1>3 DEF OnceInv, DifInit

-----------------------------------------------------------------------------
(***************************************************************************)
(* A message is heard once at most, however its tasks are replayed, unless *)
(* its row was retried by hand, the record of its send was lost, or the    *)
(* sender took it and reported an error.                                   *)
(***************************************************************************)
THEOREM NothingRepeated == DifSpec => []HeardOnce
<1>1. OnceInv => HeardOnce
  BY DEF OnceInv, Once, OneHand, HeardOnce
<1> QED
  BY <1>1, OnceInit, OnceStep, PTL DEF DifSpec

(***************************************************************************)
(* What the panel shows as sent was received; what it shows as failed or   *)
(* dead was not, but for the cases PanelTellsTheTruth names, the sender's  *)
(* error for a message that it had taken among them.                       *)
(***************************************************************************)
THEOREM PanelIsRight == DifSpec => []PanelTellsTheTruth
<1>1. OnceInv => PanelTellsTheTruth
  <2> SUFFICES ASSUME OnceInv, NEW k \in DOMAIN broadcasts
               PROVE  /\ broadcasts[k] = "sent" => heard[k] > 0
                      /\ broadcasts[k] \in {"failed", "dead"} /\ heard[k] > 0 =>
                           k \in excused \/ BeingRecorded(k)
    BY DEF PanelTellsTheTruth
  <2>1. k \in Key
    BY DEF OnceInv, ToldInv, HandInv, DifTypeOK, IsTable
  <2> QED
    BY <2>1 DEF OnceInv, ToldInv, RowsGrounded, Once, Recorded
<1> QED
  BY <1>1, OnceInit, OnceStep, PTL DEF DifSpec

(***************************************************************************)
(* The engine implements the ledger: each of its steps is one of the       *)
(* ledger's, or leaves the rows alone.                                     *)
(***************************************************************************)
LEMMA MarkAttempts ==
  ASSUME OnceInv, NEW t \in DOMAIN del, del[t].state \in AtWork,
         NEW s \in State \ {"queued"}, Mark(del[t].key, s), UNCHANGED excused
  PROVE  [Promised!LedgerNext]_(Promised!ledgerVars)
<1>1. CASE del[t].key \notin DOMAIN broadcasts
  BY <1>1 DEF Mark, Promised!ledgerVars
<1>2. CASE del[t].key \in DOMAIN broadcasts
  <2>1. del[t].key \in Key
    BY DEF OnceInv, ToldInv, HandInv, DifTypeOK, IsTable, DeliverTask
  <2>2. broadcasts[del[t].key] # "sent" \/ del[t].key \in excused
    BY <1>2, <2>1 DEF OnceInv, Once, AtWorkOnce, Tasks
  <2>3. Promised!Attempt(del[t].key, s)
    BY <1>2, <2>2 DEF Mark, Promised!Attempt
  <2> QED
    BY <2>1, <2>3 DEF Promised!LedgerNext, Promised!RowState, State
<1> QED
  BY <1>1, <1>2

\* Every step of the engine is one of the ledger, or leaves the rows alone.
LEMMA StepOfTheLedger == OnceInv /\ [DifNext]_vars => [Promised!LedgerNext]_(Promised!ledgerVars)
<1> SUFFICES ASSUME OnceInv, [DifNext]_vars PROVE [Promised!LedgerNext]_(Promised!ledgerVars)
  OBVIOUS
<1>0. /\ DOMAIN broadcasts \subseteq Key /\ broadcasts = [k \in DOMAIN broadcasts |-> broadcasts[k]]
      /\ \A t \in DOMAIN fan : fan[t].todo \subseteq Channel \X ChannelKind /\ fan[t].row \in RowId
      /\ \A t \in DOMAIN del : del[t].key \in Key
  BY DEF OnceInv, ToldInv, HandInv, DifTypeOK, IsTable, FanoutTask, DeliverTask
<1>1. CASE EditEvents
  <2> DEFINE gone == {k \in DOMAIN broadcasts : EventOf(k) \notin DOMAIN events'}
  <2>1. UNCHANGED excused /\ broadcasts' = [k \in DOMAIN broadcasts \ gone |-> broadcasts[k]]
    BY <1>1 DEF EditEvents
  <2>2. CASE gone = {}
    BY <1>0, <2>1, <2>2 DEF Promised!ledgerVars
  <2>3. CASE gone # {}
    BY <2>1, <2>3 DEF Promised!Drop, Promised!LedgerNext
  <2> QED
    BY <2>2, <2>3
<1>2. ASSUME NEW t \in FanTask, FanRecord(t) PROVE [Promised!LedgerNext]_(Promised!ledgerVars)
  <2>1. t \in DOMAIN fan /\ UNCHANGED excused
    BY <1>2 DEF FanRecord
  <2>2. PICK to \in fan[t].todo :
          \/ UNCHANGED broadcasts
          \/ /\ <<to[1], fan[t].row>> \notin DOMAIN broadcasts
             /\ broadcasts' = Put(broadcasts, <<to[1], fan[t].row>>, "queued")
    BY <1>2 DEF FanRecord
  <2>3. <<to[1], fan[t].row>> \in Key
    BY <1>0, <2>1 DEF Key
  <2> QED
    BY <2>1, <2>2, <2>3 DEF Put, Promised!Put, Promised!Record, Promised!LedgerNext, Promised!ledgerVars
<1>3. ASSUME NEW t \in DelTask, DelSettle(t) \/ DelRefused(t)
      PROVE  [Promised!LedgerNext]_(Promised!ledgerVars)
  BY <1>3, MarkAttempts DEF DelSettle, DelRefused, AtWork, State
<1>4. ASSUME NEW t \in DelTask, DelSend(t) \/ DelFail(t)
      PROVE  [Promised!LedgerNext]_(Promised!ledgerVars)
  <2>1. del[t].key \in Key /\ UNCHANGED broadcasts
    BY <1>0, <1>4 DEF DelSend, DelFail
  <2>2. UNCHANGED excused \/ excused' = excused \cup {del[t].key}
    BY <1>4 DEF DelSend, DelFail
  <2> QED
    BY <2>1, <2>2 DEF Promised!LoseMark, Promised!LedgerNext, Promised!ledgerVars
<1>5. ASSUME NEW k \in DOMAIN broadcasts, RetryReset(k)
      PROVE  [Promised!LedgerNext]_(Promised!ledgerVars)
  BY <1>0, <1>5 DEF RetryReset, Promised!Reset, Promised!LedgerNext
<1>6. CASE UNCHANGED <<broadcasts, excused>>
  BY <1>6 DEF Promised!ledgerVars
<1> QED
  BY <1>1, <1>2, <1>3, <1>4, <1>5, <1>6 DEF vars, delVars, DifNext, EditChannels,
     RelayStep, RelayClaim, RelayRow, RelayCommit, RelayAbort,
     FanStep, FanStart, FanEnqueue, FanFinish, FanFail,
     DelStep, DelFetch, RetryEnqueue, RetryLost

(***************************************************************************)
(* The engine implements Ledger.tla: rows are inserted queued, attempts    *)
(* move only what is not sent, the button resets only what failed, and a   *)
(* row goes only with its event.                                           *)
(***************************************************************************)
THEOREM EngineKeepsTheLedger == DifSpec => KeepsTheLedger
<1>1. DifInit => Promised!LedgerInit
  BY DEF DifInit, Promised!LedgerInit, Promised!NoRows
<1> QED
  BY <1>1, OnceInit, OnceStep, StepOfTheLedger, PTL DEF DifSpec, KeepsTheLedger, Promised!LedgerSpec

-----------------------------------------------------------------------------
(***************************************************************************)
(* What holds while something around the engine holds still: no channel is *)
(* moved to another group, nothing fails, no channel joins.                *)
(***************************************************************************)

-----------------------------------------------------------------------------
(* While no channel moves, only the addressed hear.                        *)

\* Channels come and go, are switched on and off and change their kind.
NobodyMoves ==
  [][\A c \in DOMAIN channels \cap DOMAIN channels' : channels'[c].group = channels[c].group]_vars

\* Every copy of a message: owed by a fanout, in the log, held by a task, about
\* to be queued again, or heard.
Listed(t) == {<<to[1], fan[t].row>> : to \in fan[t].todo \cup fan[t].owed}
Copy(k) ==
  \/ \E t \in DOMAIN fan : k \in Listed(t)
  \/ k \in DOMAIN broadcasts
  \/ \E t \in DOMAIN del : k = del[t].key
  \/ \E p \in retrying : k = p[1]
  \/ heard[k] > 0

\* The messages a fanout that begins now lists.
Fresh(r) == {<<to[1], r>> : to \in Recipients(r)}

\* The channel was there, and is of the group the row was written for, if it
\* is there still.
Addressed(k) ==
  /\ k[2] \in DOMAIN outbox /\ k[1] \in DOMAIN channels \cup removed
  /\ outbox[k[2]].kind \in Announcing /\ k[1] \in DOMAIN channels =>
       channels[k[1]].group \in {outbox[k[2]].payload.group, Parish}

AddressInv == ToldInv /\ \A k \in Key : Copy(k) => Addressed(k)

-----------------------------------------------------------------------------
(***************************************************************************)
(* The recipients of a row are addressed by it (ActiveChannelsForGroup).   *)
(***************************************************************************)
LEMMA FreshIsAddressed ==
  ASSUME DifTypeOK, NEW r \in DOMAIN outbox, NEW k \in Fresh(r)
  PROVE  k \in Key /\ Addressed(k)
<1>1. PICK to \in Recipients(r) : k = <<to[1], r>>
  BY DEF Fresh
<1>2. /\ to[1] \in DOMAIN channels
      /\ outbox[r].kind # "cancelled" => to[1] \in ActiveFor(outbox[r].payload.group)
  BY <1>1 DEF Recipients, ActiveFor
<1>3. DOMAIN channels \subseteq Channel /\ DOMAIN outbox \subseteq RowId
  BY EventLogConstants DEF DifTypeOK, LogTypeOK, IsTable, RowId
<1> QED
  BY <1>1, <1>2, <1>3 DEF Addressed, ActiveFor, Key, Announcing

(***************************************************************************)
(* A channel keeps its group, and a removed one is not made again.         *)
(***************************************************************************)
LEMMA AddressedStays ==
  ASSUME DifTypeOK, [DifNext]_vars, NEW k \in Key, Addressed(k),
         \A c \in DOMAIN channels \cap DOMAIN channels' : channels'[c].group = channels[c].group
  PROVE  Addressed(k)'
<1>1. /\ DOMAIN outbox \subseteq DOMAIN outbox'
      /\ \A r \in DOMAIN outbox : outbox'[r] = outbox[r]
  BY StepOfTheLog, OutboxGrows DEF DifTypeOK
<1>2. /\ DOMAIN channels \cup removed \subseteq DOMAIN channels' \cup removed'
      /\ DOMAIN channels' \cap (DOMAIN channels \cup removed) \subseteq DOMAIN channels
  <2>1. CASE EditChannels
    <3>1. PICK c \in Channel : \/ \E row \in ChannelEdits : CreateChannel(c, row) \/ UpdateChannel(c, row)
                               \/ DeleteChannel(c)
      BY <2>1 DEF EditChannels
    <3>2. CASE \E row \in ChannelEdits : CreateChannel(c, row)
      BY <3>2 DEF CreateChannel, Put
    <3>3. CASE \E row \in ChannelEdits : UpdateChannel(c, row)
      BY <3>3 DEF UpdateChannel
    <3>4. CASE DeleteChannel(c)
      BY <3>4 DEF DeleteChannel, Without
    <3> QED
      BY <3>1, <3>2, <3>3, <3>4
  <2>2. CASE UNCHANGED channelVars
    BY <2>2 DEF channelVars
  <2> QED
    BY <2>1, <2>2 DEF vars, DifNext, EditEvents,
       RelayStep, RelayClaim, RelayRow, RelayCommit, RelayAbort,
       FanStep, FanStart, FanRecord, FanEnqueue, FanFinish, FanFail,
       DelStep, DelFetch, DelSend, DelSettle, DelRefused, DelFail, RetryReset, RetryEnqueue, RetryLost
<1> QED
  BY <1>1, <1>2 DEF Addressed

-----------------------------------------------------------------------------
(***************************************************************************)
(* Where copies come from: a fanout that begins lists its recipients, and  *)
(* all others are copies of copies.                                        *)
(***************************************************************************)
LEMMA FansCopy ==
  ASSUME ToldInv, [DifNext]_vars, NEW t \in DOMAIN fan'
  PROVE  \/ \E u \in DOMAIN fan : Listed(t)' \subseteq Listed(u) \cup Fresh(fan[u].row)
         \/ Listed(t)' = {}
<1>1. CASE t \in DOMAIN fan /\ fan'[t] = fan[t]
  BY <1>1 DEF Listed
<1>2. ASSUME fan'[t].todo \cup fan'[t].owed = {} PROVE Listed(t)' = {}
  BY <1>2 DEF Listed
<1>3. ASSUME NEW w \in Relay, RelayRow(w)
      PROVE  (t \in DOMAIN fan /\ fan'[t] = fan[t]) \/ fan'[t].todo \cup fan'[t].owed = {}
  <2>1. PICK r \in left[w] : UNCHANGED fan \/ \E u \in FanTask : fan' = Put(fan, u, Waiting(r, 0))
    BY <1>3 DEF RelayRow
  <2>2. ASSUME NEW u \in FanTask, fan' = Put(fan, u, Waiting(r, 0))
        PROVE  (t \in DOMAIN fan /\ fan'[t] = fan[t]) \/ fan'[t] = Waiting(r, 0)
    BY <2>2 DEF Put
  <2> QED
    BY <2>1, <2>2 DEF Waiting
<1>4. ASSUME NEW u \in DOMAIN fan, RetryFan(u) \/ EndFan(u)
      PROVE  (t \in DOMAIN fan /\ fan'[t] = fan[t]) \/ fan'[t].todo \cup fan'[t].owed = {}
  <2>1. CASE RetryFan(u)
    <3>1. \/ fan' = [fan EXCEPT ![u] = Shelved(fan[u])]
          \/ fan' = [fan EXCEPT ![u] = Waiting(fan[u].row, fan[u].retried + 1)]
      BY <2>1 DEF RetryFan
    <3> QED
      BY <3>1 DEF Shelved, Waiting
  <2>2. CASE fan' = Without(fan, u)
    BY <2>2 DEF Without
  <2> QED
    BY <1>4, <2>1, <2>2 DEF EndFan
<1>5. ASSUME NEW u \in DOMAIN fan, NEW todo, NEW owed,
             fan' = [fan EXCEPT ![u] = Looping(fan[u], todo, owed)],
             todo \cup owed \subseteq fan[u].todo \cup fan[u].owed \cup Recipients(fan[u].row)
      PROVE  (t \in DOMAIN fan /\ fan'[t] = fan[t]) \/ Listed(t)' \subseteq Listed(u) \cup Fresh(fan[u].row)
  <2>1. CASE t # u
    BY <1>5, <2>1
  <2>2. CASE t = u
    <3>1. fan'[t].row = fan[u].row /\ fan'[t].todo = todo /\ fan'[t].owed = owed
      BY <1>5, <2>2 DEF Looping
    <3>2. Listed(t)' = {<<to[1], fan[u].row>> : to \in todo \cup owed}
      BY <3>1 DEF Listed
    <3> QED
      BY <1>5, <3>2 DEF Listed, Fresh
  <2> QED
    BY <2>1, <2>2
<1>6. ASSUME NEW u \in DOMAIN fan, FanStep(u) \/ FanFail(u)
      PROVE  (t \in DOMAIN fan /\ fan'[t] = fan[t]) \/ fan'[t].todo \cup fan'[t].owed = {}
             \/ Listed(t)' \subseteq Listed(u) \cup Fresh(fan[u].row)
  <2>1. CASE FanStart(u)
    <3>1. EndFan(u) \/ fan' = [fan EXCEPT ![u] = Looping(fan[u], Recipients(fan[u].row), {})]
      BY <2>1 DEF FanStart
    <3> QED
      BY <1>4, <1>5, <3>1
  <2>2. CASE FanRecord(u)
    <3>1. PICK to \in fan[u].todo :
            \/ fan' = [fan EXCEPT ![u] = Looping(fan[u], fan[u].todo \ {to}, {})]
            \/ fan' = [fan EXCEPT ![u] = Looping(fan[u], fan[u].todo \ {to}, {to})]
            \/ RetryFan(u)
      BY <2>2 DEF FanRecord
    <3>2. CASE fan' = [fan EXCEPT ![u] = Looping(fan[u], fan[u].todo \ {to}, {})]
      BY <1>5, <3>2
    <3>3. CASE fan' = [fan EXCEPT ![u] = Looping(fan[u], fan[u].todo \ {to}, {to})]
      BY <1>5, <3>3
    <3> QED
      BY <1>4, <3>1, <3>2, <3>3
  <2>3. CASE FanEnqueue(u)
    <3>1. fan' = [fan EXCEPT ![u] = Looping(fan[u], fan[u].todo, {})]
      BY <2>3 DEF FanEnqueue
    <3> QED
      BY <1>5, <3>1
  <2>4. CASE FanFinish(u) \/ FanFail(u)
    BY <1>4, <2>4 DEF FanFinish, FanFail
  <2> QED
    BY <1>6, <2>1, <2>2, <2>3, <2>4 DEF FanStep
<1>7. \/ UNCHANGED fan
      \/ \E w \in Relay : RelayRow(w)
      \/ \E u \in DOMAIN fan : FanStep(u) \/ FanFail(u)
  <2>1. \A u \in FanTask : FanStep(u) \/ FanFail(u) => u \in DOMAIN fan
    BY DEF FanStep, FanStart, FanRecord, FanEnqueue, FanFinish, FanFail
  <2> QED
    BY <2>1 DEF vars, taskVars, DifNext, EditEvents, EditChannels, RelayStep, RelayClaim, RelayCommit,
       RelayAbort, DelStep, DelFetch, DelSend, DelSettle, DelRefused, DelFail,
       RetryReset, RetryEnqueue, RetryLost
<1>8. (t \in DOMAIN fan /\ fan'[t] = fan[t]) => \E u \in DOMAIN fan : Listed(t)' \subseteq Listed(u)
  BY <1>1 DEF Listed
<1> QED
  BY <1>2, <1>3, <1>6, <1>7, <1>8

\* A row is inserted for a recipient that a fanout had listed.
LEMMA RowsCopy ==
  ASSUME ToldInv, [DifNext]_vars
  PROVE  \A k \in DOMAIN broadcasts' : Copy(k)
<1>1. ASSUME NEW t \in FanTask, FanRecord(t) PROVE \A k \in DOMAIN broadcasts' : Copy(k)
  <2>1. PICK to \in fan[t].todo :
          UNCHANGED broadcasts \/ broadcasts' = Put(broadcasts, <<to[1], fan[t].row>>, "queued")
    BY <1>1 DEF FanRecord
  <2>2. Copy(<<to[1], fan[t].row>>)
    BY <1>1 DEF FanRecord, Copy, Listed
  <2> QED
    BY <2>1, <2>2 DEF Put, Copy
<1>2. ASSUME DOMAIN broadcasts' \subseteq DOMAIN broadcasts PROVE \A k \in DOMAIN broadcasts' : Copy(k)
  BY <1>2 DEF Copy
<1>3. CASE EditEvents
  BY <1>2, <1>3 DEF EditEvents
<1>4. ASSUME NEW t \in DelTask, DelSettle(t) \/ DelRefused(t) PROVE DOMAIN broadcasts' \subseteq DOMAIN broadcasts
  BY <1>4 DEF DelSettle, DelRefused, Mark
<1>5. ASSUME NEW k \in DOMAIN broadcasts, RetryReset(k) PROVE DOMAIN broadcasts' \subseteq DOMAIN broadcasts
  BY <1>5 DEF RetryReset
<1>6. CASE UNCHANGED broadcasts
  BY <1>2, <1>6
<1> QED
  BY <1>1, <1>2, <1>3, <1>4, <1>5, <1>6 DEF vars, delVars, DifNext, EditChannels,
     RelayStep, RelayClaim, RelayRow, RelayCommit, RelayAbort,
     FanStep, FanStart, FanEnqueue, FanFinish, FanFail,
     DelStep, DelFetch, DelSend, DelFail, RetryEnqueue, RetryLost

\* A task is queued for a recipient that was owed or retried, and keeps its key.
LEMMA TasksCopy ==
  ASSUME ToldInv, [DifNext]_vars, NEW t \in DOMAIN del'
  PROVE  Copy(del'[t].key)
<1>1. \A u \in DOMAIN del : Copy(del[u].key)
  BY DEF Copy
<1>2. ASSUME NEW k, Copy(k), NEW queue, EnqueueDelivery(k, queue) PROVE Copy(del'[t].key)
  <2>1. PICK u : del' = Put(del, u, Delivery(k, queue, 0, "pending"))
    BY <1>2 DEF EnqueueDelivery
  <2>2. (t \in DOMAIN del /\ del'[t] = del[t]) \/ del'[t] = Delivery(k, queue, 0, "pending")
    BY <2>1 DEF Put
  <2>3. (t \in DOMAIN del /\ del'[t].key = del[t].key) \/ del'[t].key = k
    BY <2>2 DEF Delivery
  <2> QED
    BY <1>1, <1>2, <2>3
<1>3. ASSUME NEW u \in FanTask, FanEnqueue(u) PROVE Copy(del'[t].key)
  <2>1. PICK to \in fan[u].owed : EnqueueDelivery(<<to[1], fan[u].row>>, QueueFor(to[2]))
    BY <1>3 DEF FanEnqueue
  <2>2. u \in DOMAIN fan /\ <<to[1], fan[u].row>> \in Listed(u)
    BY <1>3 DEF FanEnqueue, Listed
  <2>3. Copy(<<to[1], fan[u].row>>)
    BY <2>2 DEF Copy
  <2> QED
    BY <1>2, <2>1, <2>3
<1>4. CASE RetryEnqueue
  <2>1. PICK p \in retrying : EnqueueDelivery(p[1], p[2])
    BY <1>4 DEF RetryEnqueue
  <2>2. Copy(p[1])
    BY DEF Copy
  <2> QED
    BY <1>2, <2>1, <2>2
<1>5. ASSUME NEW u \in DelTask, DelStep(u) \/ DelFail(u) PROVE Copy(del'[t].key)
  <2>1. u \in DOMAIN del
    BY <1>5 DEF DelStep, DelFetch, DelSend, DelSettle, DelRefused, DelFail
  <2>2. RetryDel(u) \/ EndDel(u) \/ \E s : Step(u, s)
    BY <1>5 DEF DelStep, DelFetch, DelSend, DelSettle, DelRefused, DelFail
  <2>3. ASSUME RetryDel(u) \/ (\E s : Step(u, s)) \/ del' = Without(del, u)
        PROVE  t \in DOMAIN del /\ del'[t].key = del[t].key
    BY <2>1, <2>3 DEF RetryDel, Step, Without, Delivery, Move
  <2> QED
    BY <1>1, <2>2, <2>3 DEF EndDel
<1>6. CASE UNCHANGED del
  BY <1>1, <1>6
<1> QED
  BY <1>3, <1>4, <1>5, <1>6 DEF vars, delVars, DifNext, EditEvents, EditChannels,
     RelayStep, RelayClaim, RelayRow, RelayCommit, RelayAbort,
     FanStep, FanStart, FanRecord, FanFinish, FanFail, RetryReset, RetryLost

\* What is retried by hand was a row; what is heard was a task.
LEMMA HandsCopy ==
  ASSUME ToldInv, [DifNext]_vars
  PROVE  /\ \A p \in retrying' : Copy(p[1])
         /\ \A k \in Key : heard'[k] > 0 => Copy(k)
<1>1. \/ retrying' \subseteq retrying
      \/ \E k \in DOMAIN broadcasts : retrying' = retrying \cup {<<k, QueueFor(channels[k[1]].kind)>>}
  BY DEF vars, retryVars, DifNext, EditEvents, EditChannels,
     RelayStep, RelayClaim, RelayRow, RelayCommit, RelayAbort,
     FanStep, FanStart, FanRecord, FanEnqueue, FanFinish, FanFail,
     DelStep, DelFetch, DelSend, DelSettle, DelRefused, DelFail, RetryReset, RetryEnqueue, RetryLost
<1>2. \/ UNCHANGED heard
      \/ \E t \in DOMAIN del : heard' = [heard EXCEPT ![del[t].key] = @ + 1]
  BY DEF vars, delVars, DifNext, EditEvents, EditChannels,
     RelayStep, RelayClaim, RelayRow, RelayCommit, RelayAbort,
     FanStep, FanStart, FanRecord, FanEnqueue, FanFinish, FanFail,
     DelStep, DelFetch, DelSend, DelSettle, DelRefused, DelFail, RetryReset, RetryEnqueue, RetryLost
<1>3. heard \in [Key -> Nat]
  BY DEF ToldInv, HandInv, DifTypeOK
<1> QED
  BY <1>1, <1>2, <1>3 DEF Copy

-----------------------------------------------------------------------------
\* The channels being as they were, every copy stays addressed.
LEMMA AddressStep ==
  ASSUME AddressInv, [DifNext]_vars,
         \A c \in DOMAIN channels \cap DOMAIN channels' : channels'[c].group = channels[c].group
  PROVE  AddressInv'
<1>1. ToldInv' /\ DifTypeOK
  BY ToldStep DEF AddressInv, ToldInv, HandInv
<1>2. ASSUME NEW k \in Key, Copy(k)' PROVE Copy(k) \/ \E u \in DOMAIN fan : k \in Fresh(fan[u].row)
  <2>1. \/ \E t \in DOMAIN fan' : k \in Listed(t)'
        \/ k \in DOMAIN broadcasts'
        \/ \E t \in DOMAIN del' : k = del'[t].key
        \/ \E p \in retrying' : k = p[1]
        \/ heard'[k] > 0
    BY <1>2 DEF Copy
  <2>2. ASSUME NEW t \in DOMAIN fan', k \in Listed(t)'
        PROVE  Copy(k) \/ \E u \in DOMAIN fan : k \in Fresh(fan[u].row)
    BY <2>2, FansCopy DEF AddressInv, Copy
  <2> QED
    BY <2>1, <2>2, RowsCopy, TasksCopy, HandsCopy DEF AddressInv
<1>3. \A u \in DOMAIN fan : fan[u].row \in DOMAIN outbox
  BY DEF AddressInv, ToldInv, FansGrounded
<1>4. ASSUME NEW k \in Key, Copy(k)' PROVE Addressed(k)
  BY <1>1, <1>2, <1>3, <1>4, FreshIsAddressed DEF AddressInv
<1>5. ASSUME NEW k \in Key, Addressed(k) PROVE Addressed(k)'
  BY <1>1, <1>5, AddressedStays
<1> QED
  BY <1>1, <1>4, <1>5 DEF AddressInv, Key

(***************************************************************************)
(* A channel hears the announcements of its group and of the parish only,  *)
(* whatever event changes its group, while no channel does.                *)
(***************************************************************************)
THEOREM OnlyTheAddressedHear == DifSpec /\ NobodyMoves => []OnlyItsGroupHears
<1>1. DifInit => AddressInv
  <2>1. DifInit => \A k \in Key : ~Copy(k)
    BY DEF DifInit, Copy
  <2> QED
    BY <2>1, ToldInit DEF AddressInv
<1>2. AddressInv /\ [DifNext]_vars
        /\ [\A c \in DOMAIN channels \cap DOMAIN channels' : channels'[c].group = channels[c].group]_vars
        => AddressInv'
  <2>1. UNCHANGED vars => UNCHANGED channels
    BY DEF vars, channelVars
  <2> QED
    BY <2>1, AddressStep
<1>3. AddressInv => OnlyItsGroupHears
  BY DEF AddressInv, Addressed, Copy, OnlyItsGroupHears
<1> QED
  BY <1>1, <1>2, <1>3, PTL DEF DifSpec, NobodyMoves

-----------------------------------------------------------------------------
(* Without failures of the environment, a queued row is on its way.        *)

NothingFails == [][UNCHANGED faults]_vars

\* The loop of fanout t has recorded the row of key k and not queued it.
Owes(t, k) == fan[t].row = k[2] /\ \E to \in fan[t].owed : to[1] = k[1]

Held(k) == \/ \E t \in DOMAIN del : del[t].key = k /\ del[t].state # "archived"
           \/ \E t \in DOMAIN fan : Owes(t, k)
           \/ \E p \in retrying : p[1] = k

\* A loop owes one recipient at a time, and forgets none when it ends.
OwesOne == \A t \in DOMAIN fan : /\ fan[t].owed # {} => fan[t].state = "running"
                                 /\ \A x, y \in fan[t].owed : x = y

WayInv == DifTypeOK /\ OwesOne /\ \A k \in DOMAIN broadcasts : broadcasts[k] = "queued" => Held(k)

\* What a loop owes is enqueued before it records another row or ends.
LEMMA OwesOneStep == DifTypeOK /\ OwesOne /\ [DifNext]_vars => OwesOne'
<1> SUFFICES ASSUME DifTypeOK, OwesOne, [DifNext]_vars, NEW t \in DOMAIN fan'
             PROVE  /\ fan'[t].owed # {} => fan'[t].state = "running"
                    /\ \A x, y \in fan'[t].owed : x = y
  BY DEF OwesOne
<1> DEFINE Good(f) == /\ f.owed # {} => f.state = "running"
                      /\ \A x, y \in f.owed : x = y
<1>1. /\ \A u \in DOMAIN fan : Good(fan[u])
      /\ \A r, n : Good(Waiting(r, n))
      /\ \A f : Good(Shelved(f))
      /\ \A f, todo : Good(Looping(f, todo, {}))
      /\ \A f, todo, to : Good(Looping(f, todo, {to}))
  BY DEF OwesOne, Waiting, Shelved, Looping
<1>2. ASSUME NEW u \in DOMAIN fan, NEW f, Good(f), fan' = [fan EXCEPT ![u] = f] PROVE Good(fan'[t])
  BY <1>1, <1>2
<1>3. ASSUME NEW u \in DOMAIN fan, RetryFan(u) \/ EndFan(u) PROVE Good(fan'[t])
  <2>1. \/ fan' = [fan EXCEPT ![u] = Shelved(fan[u])]
        \/ fan' = [fan EXCEPT ![u] = Waiting(fan[u].row, fan[u].retried + 1)]
        \/ fan' = Without(fan, u)
    BY <1>3 DEF RetryFan, EndFan
  <2> QED
    BY <1>1, <1>2, <2>1 DEF Without
<1>4. ASSUME NEW w \in Relay, RelayRow(w) PROVE Good(fan'[t])
  <2>1. UNCHANGED fan \/ \E r, u : fan' = Put(fan, u, Waiting(r, 0))
    BY <1>4 DEF RelayRow
  <2>2. ASSUME NEW r, NEW u, fan' = Put(fan, u, Waiting(r, 0)) PROVE Good(fan'[t])
    <3>1. (t \in DOMAIN fan /\ fan'[t] = fan[t]) \/ fan'[t] = Waiting(r, 0)
      BY <2>2 DEF Put
    <3> QED
      BY <1>1, <3>1
  <2> QED
    BY <1>1, <2>1, <2>2
<1>5. ASSUME NEW u \in DOMAIN fan, FanStep(u) \/ FanFail(u) PROVE Good(fan'[t])
  <2>1. \/ RetryFan(u) \/ EndFan(u)
        \/ \E todo : fan' = [fan EXCEPT ![u] = Looping(fan[u], todo, {})]
        \/ \E todo, to : fan' = [fan EXCEPT ![u] = Looping(fan[u], todo, {to})]
    <3>1. CASE FanStart(u)
      BY <3>1 DEF FanStart
    <3>2. CASE FanRecord(u)
      BY <3>2 DEF FanRecord
    <3>3. CASE FanEnqueue(u)
      BY <3>3 DEF FanEnqueue
    <3>4. CASE FanFinish(u) \/ FanFail(u)
      BY <3>4 DEF FanFinish, FanFail
    <3> QED
      BY <1>5, <3>1, <3>2, <3>3, <3>4 DEF FanStep
  <2> QED
    BY <1>1, <1>2, <1>3, <2>1
<1>6. \/ UNCHANGED fan
      \/ \E w \in Relay : RelayRow(w)
      \/ \E u \in DOMAIN fan : FanStep(u) \/ FanFail(u)
  <2>1. \A u \in FanTask : FanStep(u) \/ FanFail(u) => u \in DOMAIN fan
    BY DEF FanStep, FanStart, FanRecord, FanEnqueue, FanFinish, FanFail
  <2> QED
    BY <2>1 DEF vars, taskVars, DifNext, EditEvents, EditChannels, RelayStep, RelayClaim, RelayCommit,
       RelayAbort, DelStep, DelFetch, DelSend, DelSettle, DelRefused, DelFail,
       RetryReset, RetryEnqueue, RetryLost
<1> QED
  BY <1>1, <1>4, <1>5, <1>6

\* Enqueued for k, and every other task as it was.
LEMMA EnqueueHolds ==
  ASSUME NEW k, NEW queue, EnqueueDelivery(k, queue)
  PROVE  /\ \E t \in DOMAIN del' : del'[t].key = k /\ del'[t].state # "archived"
         /\ \A t \in DOMAIN del : t \in DOMAIN del' /\ del'[t] = del[t]
  BY DEF EnqueueDelivery, Put, Delivery

\* A fanout that does not fail drops what it owes only into the queue.
LEMMA FanHolds ==
  ASSUME DifTypeOK, OwesOne, UNCHANGED faults,
         NEW t \in DOMAIN fan, FanStep(t) \/ FanFail(t), NEW k \in Key, Held(k)
  PROVE  Held(k)'
<1>1. ~Fault
  BY DEF Fault, DifTypeOK
<1>2. ASSUME fan[t].owed = {}, UNCHANGED <<del, retrying>>,
             \A u \in DOMAIN fan \ {t} : u \in DOMAIN fan' /\ fan'[u] = fan[u]
      PROVE  Held(k)'
  BY <1>2 DEF Held, Owes
<1>3. CASE FanStart(t)
  <2>1. fan[t].owed = {} /\ UNCHANGED <<del, retrying>>
    BY <1>3 DEF FanStart, OwesOne, delVars, retryVars
  <2>2. fan' = Without(fan, t) \/ \E f : fan' = [fan EXCEPT ![t] = f]
    BY <1>1, <1>3 DEF FanStart, EndFan
  <2> QED
    BY <1>2, <2>1, <2>2 DEF Without
<1>4. CASE FanRecord(t)
  <2>1. fan[t].owed = {} /\ UNCHANGED <<del, retrying>> /\ \E f : fan' = [fan EXCEPT ![t] = f]
    BY <1>4 DEF FanRecord, RetryFan, retryVars
  <2> QED
    BY <1>2, <2>1
<1>5. CASE FanEnqueue(t)
  <2>1. PICK to \in fan[t].owed : EnqueueDelivery(<<to[1], fan[t].row>>, QueueFor(to[2]))
    BY <1>5 DEF FanEnqueue
  <2>2. \A u \in DOMAIN fan \ {t} : u \in DOMAIN fan' /\ fan'[u] = fan[u]
    BY <1>5 DEF FanEnqueue
  <2>3. \A x \in fan[t].owed : x = to
    BY DEF OwesOne
  <2>4. UNCHANGED retrying
    BY <1>5 DEF FanEnqueue, retryVars
  <2>5. ASSUME Owes(t, k) PROVE \E u \in DOMAIN del' : del'[u].key = k /\ del'[u].state # "archived"
    <3>1. k = <<to[1], fan[t].row>>
      BY <2>3, <2>5 DEF Owes, Key
    <3> QED
      BY <2>1, <3>1, EnqueueHolds
  <2> QED
    BY <2>1, <2>2, <2>4, <2>5, EnqueueHolds DEF Held, Owes
<1>6. CASE FanFinish(t)
  <2>1. fan[t].owed = {} /\ UNCHANGED <<del, retrying>> /\ fan' = Without(fan, t)
    BY <1>1, <1>6 DEF FanFinish, EndFan, delVars, retryVars
  <2> QED
    BY <1>2, <2>1 DEF Without
<1>7. CASE FanFail(t)
  BY <1>1, <1>7 DEF FanFail
<1> QED
  BY <1>3, <1>4, <1>5, <1>6, <1>7 DEF FanStep

\* A delivery that does not fail leaves the queue only with its row settled.
LEMMA DelHolds ==
  ASSUME DifTypeOK, UNCHANGED faults, NEW t \in DelTask, DelStep(t) \/ DelFail(t),
         NEW k \in DOMAIN broadcasts', broadcasts'[k] = "queued", Held(k)
  PROVE  Held(k)'
<1>1. ~Fault
  BY DEF Fault, DifTypeOK
<1>2. t \in DOMAIN del /\ UNCHANGED <<fan, retrying>>
  BY DEF DelStep, DelFetch, DelSend, DelSettle, DelRefused, DelFail, taskVars, retryVars
<1>3. ASSUME NEW s, s # "archived", Step(t, s) PROVE Held(k)'
  <2>1. \A u \in DOMAIN del : u \in DOMAIN del' /\ del'[u].key = del[u].key
                              /\ (del[u].state # "archived" => del'[u].state # "archived")
    BY <1>3 DEF Step, Move, Delivery
  <2> QED
    BY <1>2, <2>1 DEF Held, Owes
<1>4. ASSUME k # del[t].key, \A u \in DOMAIN del \ {t} : u \in DOMAIN del' /\ del'[u] = del[u]
      PROVE  Held(k)'
  BY <1>2, <1>4 DEF Held, Owes
<1>5. CASE DelFetch(t)
  <2>1. \/ \E s : s # "archived" /\ Step(t, s)
        \/ /\ ~(del[t].key \in DOMAIN broadcasts /\ broadcasts[del[t].key] = "queued")
           /\ del' = Without(del, t)
    BY <1>1, <1>5 DEF DelFetch, EndDel
  <2>2. UNCHANGED broadcasts
    BY <1>5 DEF DelFetch
  <2> QED
    BY <1>3, <1>4, <2>1, <2>2 DEF Without
<1>6. CASE DelSend(t)
  BY <1>3, <1>6 DEF DelSend
<1>7. ASSUME NEW s, s # "queued", Mark(del[t].key, s) PROVE k # del[t].key
  BY <1>7 DEF Mark
<1>8. CASE DelSettle(t)
  <2>1. del' = Without(del, t) /\ k # del[t].key
    BY <1>1, <1>7, <1>8 DEF DelSettle, EndDel, Mark
  <2> QED
    BY <1>4, <2>1 DEF Without
<1>9. CASE DelRefused(t)
  <2>1. k # del[t].key /\ \E d : del' = [del EXCEPT ![t] = d]
    BY <1>7, <1>9 DEF DelRefused, RetryDel
  <2> QED
    BY <1>4, <2>1
<1>10. CASE DelFail(t)
  BY <1>1, <1>10 DEF DelFail
<1> QED
  BY <1>5, <1>6, <1>8, <1>9, <1>10 DEF DelStep

\* A row turns queued with its holder, and loses none.
LEMMA WayStep == WayInv /\ [DifNext]_vars /\ UNCHANGED faults => WayInv'
<1> SUFFICES ASSUME WayInv, [DifNext]_vars, UNCHANGED faults,
                    NEW k \in DOMAIN broadcasts', broadcasts'[k] = "queued"
             PROVE  Held(k)'
  BY DifTypeStep, OwesOneStep DEF WayInv
<1>0. DifTypeOK /\ OwesOne /\ ~Fault /\ k \in Key
  BY DifTypeStep DEF WayInv, Fault, DifTypeOK, IsTable
<1>1. ASSUME NEW t \in FanTask, FanRecord(t), k \notin DOMAIN broadcasts PROVE Held(k)'
  <2>1. PICK to \in fan[t].todo :
          /\ broadcasts' = Put(broadcasts, <<to[1], fan[t].row>>, "queued")
          /\ fan' = [fan EXCEPT ![t] = Looping(fan[t], fan[t].todo \ {to}, {to})]
    BY <1>1 DEF FanRecord
  <2>2. k = <<to[1], fan[t].row>> /\ t \in DOMAIN fan
    BY <1>1, <2>1 DEF Put, FanRecord
  <2> QED
    BY <2>1, <2>2 DEF Held, Owes, Looping
<1>2. ASSUME NEW q \in DOMAIN broadcasts, RetryReset(q) PROVE Held(k)'
  <2>1. retrying \subseteq retrying' /\ UNCHANGED <<fan, del>>
        /\ broadcasts' = [broadcasts EXCEPT ![q] = "queued"]
        /\ <<q, QueueFor(channels[q[1]].kind)>> \in retrying'
    BY <1>2 DEF RetryReset, taskVars
  <2>2. CASE k = q
    BY <2>1, <2>2 DEF Held
  <2>3. CASE k # q
    <3>1. Held(k)
      BY <2>1, <2>3 DEF WayInv
    <3> QED
      BY <2>1, <3>1 DEF Held, Owes
  <2> QED
    BY <2>2, <2>3
<1>3. ASSUME k \in DOMAIN broadcasts, broadcasts[k] = "queued" PROVE Held(k)'
  <2>1. Held(k)
    BY <1>3 DEF WayInv
  <2>2. ASSUME NEW t \in FanTask, FanStep(t) \/ FanFail(t) PROVE Held(k)'
    <3>1. t \in DOMAIN fan
      BY <2>2 DEF FanStep, FanStart, FanRecord, FanEnqueue, FanFinish, FanFail
    <3> QED
      BY <1>0, <2>1, <2>2, <3>1, FanHolds
  <2>3. ASSUME NEW t \in DelTask, DelStep(t) \/ DelFail(t) PROVE Held(k)'
    BY <1>0, <2>1, <2>3, DelHolds
  <2>4. CASE RetryEnqueue
    <3>1. PICK p \in retrying : EnqueueDelivery(p[1], p[2]) /\ retrying' = retrying \ {p}
      BY <2>4 DEF RetryEnqueue
    <3>2. UNCHANGED fan
      BY <2>4 DEF RetryEnqueue, taskVars
    <3> QED
      BY <2>1, <3>1, <3>2, EnqueueHolds DEF Held, Owes
  <2>5. ASSUME NEW w \in Relay, RelayRow(w) PROVE Held(k)'
    <3>1. /\ UNCHANGED <<del, retrying>>
          /\ UNCHANGED fan \/ \E t \in FanTask \ DOMAIN fan : \E f : fan' = Put(fan, t, f)
      BY <2>5 DEF RelayRow, delVars, retryVars
    <3>2. \A t \in DOMAIN fan : t \in DOMAIN fan' /\ fan'[t] = fan[t]
      BY <3>1 DEF Put
    <3> QED
      BY <2>1, <3>1, <3>2 DEF Held, Owes
  <2>6. CASE UNCHANGED <<fan, del>> /\ retrying \subseteq retrying'
    BY <2>1, <2>6 DEF Held, Owes
  <2>7. ~RetryLost
    BY <1>0 DEF RetryLost
  <2> QED
    BY <2>2, <2>3, <2>4, <2>5, <2>6, <2>7 DEF vars, taskVars, delVars, retryVars, DifNext, EditEvents, EditChannels,
       RelayStep, RelayClaim, RelayCommit, RelayAbort, RetryReset
<1>4. \/ \E t \in FanTask : FanRecord(t) /\ k \notin DOMAIN broadcasts
      \/ \E q \in DOMAIN broadcasts : RetryReset(q)
      \/ k \in DOMAIN broadcasts /\ broadcasts[k] = "queued"
  <2>1. ASSUME NEW t \in FanTask, FanRecord(t)
        PROVE  k \notin DOMAIN broadcasts \/ broadcasts[k] = "queued"
    BY <2>1 DEF FanRecord, Put
  <2>2. ASSUME NEW t \in DelTask, DelSettle(t) \/ DelRefused(t)
        PROVE  k \in DOMAIN broadcasts /\ broadcasts[k] = "queued"
    <3>1. \E s \in {"sent", "dead", "failed"} : Mark(del[t].key, s)
      BY <2>2 DEF DelSettle, DelRefused
    <3> QED
      BY <3>1 DEF Mark
  <2>3. CASE EditEvents
    BY <2>3 DEF EditEvents
  <2>4. CASE UNCHANGED broadcasts
    BY <2>4
  <2> QED
    BY <2>1, <2>2, <2>3, <2>4 DEF vars, delVars, DifNext, EditChannels,
       RelayStep, RelayClaim, RelayRow, RelayCommit, RelayAbort,
       FanStep, FanStart, FanEnqueue, FanFinish, FanFail,
       DelStep, DelFetch, DelSend, DelFail, RetryEnqueue, RetryLost
<1> QED
  BY <1>1, <1>2, <1>3, <1>4

(***************************************************************************)
(* A queued row is on its way as long as nothing fails: a fanout owes it,  *)
(* a task carries it or a retry is about to queue it, and a task that ends *)
(* has settled its row (the loop's "already recorded and queued").         *)
(***************************************************************************)
THEOREM QueuedStaysOnItsWay == DifSpec /\ NothingFails => []QueuedIsOnItsWay
<1>1. DifInit => WayInv
  <2>1. DifInit => OwesOne /\ \A k \in DOMAIN broadcasts : FALSE
    BY DEF DifInit, OwesOne
  <2> QED
    BY <2>1, DifTypeInit DEF WayInv
<1>2. WayInv /\ [DifNext]_vars /\ [UNCHANGED faults]_vars => WayInv'
  BY WayStep DEF vars
<1>3. WayInv => QueuedIsOnItsWay
  BY DEF WayInv, Held, Owes, OwesOne, QueuedIsOnItsWay
<1> QED
  BY <1>1, <1>2, <1>3, PTL DEF DifSpec, NothingFails

-----------------------------------------------------------------------------
(* While no channel joins, what is on air was announced to all.            *)

\* Channels may be switched off, deleted or change their kind.
NobodyJoins == [][\A g \in Group : ActiveFor(g)' \subseteq ActiveFor(g)]_vars

\* asynq gave a fanout up only if its event is gone.
NoneGivenUp == \A t \in DOMAIN fan : fan[t].state = "archived" => outbox[fan[t].row].event \in deleted

Wanted(r) == ActiveFor(outbox[r].payload.group)
Covered(r, c) == <<c, r>> \in DOMAIN broadcasts \/ outbox[r].event \in deleted

FannedOut == \A r \in fanned :
  outbox[r].kind \in Announcing => Superseded(r) \/ \A c \in Wanted(r) : Covered(r, c)
Underway == \A t \in DOMAIN fan :
  fan[t].state = "running" /\ outbox[fan[t].row].kind \in Announcing =>
    \A c \in Wanted(fan[t].row) : Covered(fan[t].row, c) \/ \E to \in fan[t].todo : to[1] = c

CurrentInv == ToldInv /\ LogInv /\ OwesOne /\ fanned \subseteq DOMAIN outbox /\ FannedOut /\ Underway

\* A row goes only with its event.
LEMMA CoveredStays ==
  ASSUME LogInv, [DifNext]_vars, NEW r \in DOMAIN outbox, NEW c, Covered(r, c)
  PROVE  Covered(r, c)'
<1>1. /\ r \in DOMAIN outbox' /\ outbox'[r] = outbox[r]
      /\ UnusedHasNoRow'
      /\ deleted \subseteq deleted'
  <2>1. deleted \subseteq deleted'
    BY StepOfTheLog DEF LogNext, logVars, CreateEvent, UpdateEvent, PublishEvent, UnpublishEvent, DeleteEvent
  <2> QED
    BY <2>1, StepOfTheLog, OutboxGrows, LogInvStep DEF LogInv
<1>2. CASE EditEvents
  <2>1. \A k \in DOMAIN broadcasts : EventOf(k) \in DOMAIN events' => k \in DOMAIN broadcasts'
    BY <1>2 DEF EditEvents
  <2>2. <<c, r>>[2] = r
    OBVIOUS
  <2>3. <<c, r>> \in DOMAIN broadcasts /\ outbox[r].event \in DOMAIN events' => <<c, r>> \in DOMAIN broadcasts'
    BY <2>1, <2>2 DEF EventOf
  <2> QED
    BY <1>1, <2>3 DEF Covered, UnusedHasNoRow
<1>3. ASSUME NEW t \in DelTask, DelSettle(t) \/ DelRefused(t) PROVE DOMAIN broadcasts \subseteq DOMAIN broadcasts'
  <2>1. \E k, s : Mark(k, s)
    BY <1>3 DEF DelSettle, DelRefused
  <2> QED
    BY <2>1 DEF Mark
<1>4. ASSUME NEW t \in FanTask, FanRecord(t) PROVE DOMAIN broadcasts \subseteq DOMAIN broadcasts'
  BY <1>4 DEF FanRecord, Put
<1>5. ASSUME NEW k \in DOMAIN broadcasts, RetryReset(k) PROVE DOMAIN broadcasts \subseteq DOMAIN broadcasts'
  BY <1>5 DEF RetryReset
<1>6. EditEvents \/ DOMAIN broadcasts \subseteq DOMAIN broadcasts'
  BY <1>3, <1>4, <1>5 DEF vars, delVars, DifNext, EditChannels,
     RelayStep, RelayClaim, RelayRow, RelayCommit, RelayAbort,
     FanStep, FanStart, FanEnqueue, FanFinish, FanFail,
     DelStep, DelFetch, DelSend, DelFail, RetryEnqueue, RetryLost
<1> QED
  BY <1>1, <1>2, <1>6 DEF Covered

\* A row keeps its group, and the group only loses channels.
LEMMA WantedShrinks ==
  ASSUME LogInv, [DifNext]_vars, NEW r \in DOMAIN outbox,
         \A g \in Group : ActiveFor(g)' \subseteq ActiveFor(g)
  PROVE  /\ r \in DOMAIN outbox' /\ outbox'[r] = outbox[r]
         /\ Wanted(r)' \subseteq Wanted(r)
<1>1. r \in DOMAIN outbox' /\ outbox'[r] = outbox[r] /\ outbox[r] \in OutboxRow
  BY StepOfTheLog, OutboxGrows DEF LogInv, LogTypeOK
<1>2. outbox[r].payload.group \in Group
  BY <1>1 DEF OutboxRow, Payload
<1>3. Wanted(r)' = ActiveFor(outbox[r].payload.group)'
  BY <1>1 DEF Wanted, ActiveFor
<1>4. \A g : ActiveFor(g)' = {c \in DOMAIN channels' : channels'[c].active /\ channels'[c].group \in {g, Parish}}
  BY DEF ActiveFor
<1> QED
  BY <1>1, <1>2, <1>3, <1>4 DEF Wanted, ActiveFor

\* A fanout runs to its end superseded, or with every recipient covered.
LEMMA FannedStep ==
  ASSUME CurrentInv, [DifNext]_vars,
         \A g \in Group : ActiveFor(g)' \subseteq ActiveFor(g)
  PROVE  fanned' \subseteq DOMAIN outbox' /\ FannedOut'
<1>1. \A t \in DOMAIN fan : fan[t].row \in DOMAIN outbox
  BY DEF CurrentInv, ToldInv, FansGrounded
<1>2. \/ UNCHANGED fanned
      \/ \E t \in DOMAIN fan : /\ fanned' = fanned \cup {fan[t].row}
                               /\ Superseded(fan[t].row) \/ FanFinish(t)
  <2>1. ASSUME NEW t \in FanTask, FanStart(t) \/ FanFinish(t), ~UNCHANGED fanned
        PROVE  /\ t \in DOMAIN fan /\ fanned' = fanned \cup {fan[t].row}
               /\ Superseded(fan[t].row) \/ FanFinish(t)
    BY <2>1 DEF FanStart, FanFinish, EndFan
  <2> QED
    BY <2>1 DEF vars, taskVars, DifNext, EditEvents, EditChannels,
       RelayStep, RelayClaim, RelayRow, RelayCommit, RelayAbort, FanStep, FanRecord, FanEnqueue, FanFail,
       DelStep, DelFetch, DelSend, DelSettle, DelRefused, DelFail, RetryReset, RetryEnqueue, RetryLost
<1>3. \A r \in fanned' : r \in DOMAIN outbox
  BY <1>1, <1>2 DEF CurrentInv
<1>4. ASSUME NEW r \in fanned', outbox[r].kind \in Announcing
      PROVE  Superseded(r) \/ \A c \in Wanted(r) : Covered(r, c)
  <2>1. CASE r \in fanned
    BY <1>4, <2>1 DEF CurrentInv, FannedOut
  <2>2. ASSUME NEW t \in DOMAIN fan, FanFinish(t), r = fan[t].row
        PROVE  \A c \in Wanted(r) : Covered(r, c)
    BY <1>4, <2>2 DEF CurrentInv, Underway, FanFinish
  <2> QED
    BY <1>2, <2>1, <2>2
<1>5. ASSUME NEW r \in fanned'
      PROVE  r \in DOMAIN outbox' /\ (outbox'[r].kind \in Announcing =>
               Superseded(r)' \/ \A c \in Wanted(r)' : Covered(r, c)')
  <2>1. /\ r \in DOMAIN outbox /\ r \in DOMAIN outbox' /\ outbox'[r] = outbox[r]
        /\ Wanted(r)' \subseteq Wanted(r)
    BY <1>3, WantedShrinks DEF CurrentInv
  <2>2. Superseded(r) => Superseded(r)'
    BY <2>1, StepOfTheLog, SupersededStays DEF CurrentInv, LogInv
  <2>3. \A c : Covered(r, c) => Covered(r, c)'
    BY <2>1, CoveredStays DEF CurrentInv
  <2> QED
    BY <1>4, <2>1, <2>2, <2>3
<1> QED
  BY <1>5 DEF FannedOut

\* A loop begins with every recipient before it, and leaves none uncovered.
LEMMA UnderwayStep ==
  ASSUME CurrentInv, [DifNext]_vars,
         \A g \in Group : ActiveFor(g)' \subseteq ActiveFor(g)
  PROVE  Underway'
<1> SUFFICES ASSUME NEW t \in DOMAIN fan', fan'[t].state = "running",
                    NEW r, r = fan'[t].row, outbox'[r].kind \in Announcing, NEW c \in Wanted(r)'
             PROVE  Covered(r, c)' \/ \E to \in fan'[t].todo : to[1] = c
  BY DEF Underway, Wanted, ActiveFor, Covered
<1>0. /\ \A u \in DOMAIN fan : fan[u].row \in DOMAIN outbox
      /\ LogInv
  BY DEF CurrentInv, ToldInv, FansGrounded
<1>1. ASSUME NEW u \in DOMAIN fan, r = fan[u].row
      PROVE  /\ outbox[r].kind \in Announcing /\ c \in Wanted(r)
             /\ Covered(r, c) => Covered(r, c)'
  <2>1. r \in DOMAIN outbox
    BY <1>0, <1>1
  <2> QED
    BY <1>0, <2>1, WantedShrinks, CoveredStays
<1>2. ASSUME t \in DOMAIN fan, fan[t].state = "running", fan[t].row = r,
             \A to \in fan[t].todo : to \in fan'[t].todo \/ Covered(r, to[1])'
      PROVE  Covered(r, c)' \/ \E to \in fan'[t].todo : to[1] = c
  <2>1. Covered(r, c) \/ \E to \in fan[t].todo : to[1] = c
    BY <1>1, <1>2 DEF CurrentInv, Underway
  <2> QED
    BY <1>1, <1>2, <2>1
<1>3. CASE t \in DOMAIN fan /\ fan'[t] = fan[t]
  BY <1>2, <1>3
<1>4. ASSUME NEW w \in Relay, RelayRow(w) PROVE t \in DOMAIN fan /\ fan'[t] = fan[t]
  <2>1. UNCHANGED fan \/ \E q, u : fan' = Put(fan, u, Waiting(q, 0))
    BY <1>4 DEF RelayRow
  <2>2. ASSUME NEW q, NEW u, fan' = Put(fan, u, Waiting(q, 0)) PROVE t \in DOMAIN fan /\ fan'[t] = fan[t]
    BY <2>2 DEF Put, Waiting
  <2> QED
    BY <2>1, <2>2
<1>5. ASSUME NEW u \in DOMAIN fan, RetryFan(u) \/ EndFan(u) PROVE t \in DOMAIN fan /\ fan'[t] = fan[t]
  <2>1. CASE RetryFan(u)
    BY <2>1 DEF RetryFan, Waiting, Shelved
  <2> QED
    BY <1>5, <2>1 DEF EndFan, Without
<1>6. ASSUME NEW u \in DOMAIN fan, FanStep(u) \/ FanFail(u)
      PROVE  Covered(r, c)' \/ \E to \in fan'[t].todo : to[1] = c
  <2>1. CASE t # u
    <3>1. \/ RetryFan(u) \/ EndFan(u)
          \/ \E f : fan' = [fan EXCEPT ![u] = f]
      BY <1>6 DEF FanStep, FanStart, FanRecord, FanEnqueue, FanFinish, FanFail
    <3> QED
      BY <1>3, <1>5, <2>1, <3>1
  <2>2. CASE t = u /\ FanStart(t)
    <3>1. CASE EndFan(t)
      BY <1>3, <1>5, <2>2, <3>1
    <3>2. CASE fan' = [fan EXCEPT ![t] = Looping(fan[t], Recipients(fan[t].row), {})]
      <4>1. fan'[t].row = fan[t].row /\ fan'[t].todo = Recipients(fan[t].row)
        BY <2>2, <3>2 DEF Looping
      <4>2. c \in Wanted(r) /\ outbox[r].kind # "cancelled"
        BY <1>1, <2>2, <4>1 DEF Announcing
      <4>3. <<c, channels[c].kind>> \in Recipients(fan[t].row)
        BY <4>1, <4>2 DEF Recipients, Wanted
      <4> QED
        BY <4>1, <4>3
    <3> QED
      BY <2>2, <3>1, <3>2 DEF FanStart
  <2>3. CASE t = u /\ FanRecord(t)
    <3>1. PICK to \in fan[t].todo :
            \/ RetryFan(t)
            \/ /\ \E owed : fan' = [fan EXCEPT ![t] = Looping(fan[t], fan[t].todo \ {to}, owed)]
               /\ <<to[1], fan[t].row>> \in DOMAIN broadcasts'
      BY <2>3 DEF FanRecord, Put
    <3>2. ASSUME NEW owed, fan' = [fan EXCEPT ![t] = Looping(fan[t], fan[t].todo \ {to}, owed)],
                 <<to[1], fan[t].row>> \in DOMAIN broadcasts'
          PROVE  Covered(r, c)' \/ \E x \in fan'[t].todo : x[1] = c
      <4>1. fan[t].state = "running" /\ fan'[t].row = fan[t].row /\ fan'[t].todo = fan[t].todo \ {to}
        BY <2>3, <3>2 DEF FanRecord, Looping
      <4>2. Covered(r, to[1])'
        BY <3>2, <4>1 DEF Covered
      <4> QED
        BY <1>2, <2>3, <4>1, <4>2
    <3> QED
      BY <1>3, <1>5, <2>3, <3>1, <3>2
  <2>4. CASE t = u /\ FanEnqueue(t)
    <3>1. fan[t].state = "running" /\ fan'[t].row = fan[t].row /\ fan'[t].todo = fan[t].todo
      BY <2>4 DEF FanEnqueue, Looping, CurrentInv, OwesOne
    <3> QED
      BY <1>2, <2>4, <3>1
  <2>5. CASE t = u /\ (FanFinish(t) \/ FanFail(t))
    BY <1>3, <1>5, <2>5 DEF FanFinish, FanFail
  <2> QED
    BY <1>6, <2>1, <2>2, <2>3, <2>4, <2>5 DEF FanStep
<1>7. \/ UNCHANGED fan
      \/ \E w \in Relay : RelayRow(w)
      \/ \E u \in DOMAIN fan : FanStep(u) \/ FanFail(u)
  <2>1. \A u \in FanTask : FanStep(u) \/ FanFail(u) => u \in DOMAIN fan
    BY DEF FanStep, FanStart, FanRecord, FanEnqueue, FanFinish, FanFail
  <2> QED
    BY <2>1 DEF vars, taskVars, DifNext, EditEvents, EditChannels, RelayStep, RelayClaim, RelayCommit,
       RelayAbort, DelStep, DelFetch, DelSend, DelSettle, DelRefused, DelFail,
       RetryReset, RetryEnqueue, RetryLost
<1> QED
  BY <1>3, <1>4, <1>6, <1>7

(***************************************************************************)
(* At rest, each channel addressed by the newest row of an event on air    *)
(* has a delivery of it, whatever fails, as long as asynq gives up no      *)
(* fanout of an event that exists and no channel joins.                    *)
(***************************************************************************)
THEOREM WhatIsOnAirWasAnnounced ==
  DifSpec /\ NobodyJoins /\ []NoneGivenUp => []CurrentIsAnnounced
<1>1. DifInit => CurrentInv
  <2>1. DifInit => OwesOne /\ FannedOut /\ Underway /\ fanned = {} /\ LogInit
    BY DEF DifInit, OwesOne, FannedOut, Underway
  <2> QED
    BY <2>1, ToldInit, LogInvInit DEF CurrentInv
<1>2. CurrentInv /\ [DifNext]_vars /\ [\A g \in Group : ActiveFor(g)' \subseteq ActiveFor(g)]_vars
        => CurrentInv'
  <2> SUFFICES ASSUME CurrentInv, [DifNext]_vars,
                      [\A g \in Group : ActiveFor(g)' \subseteq ActiveFor(g)]_vars
               PROVE  CurrentInv'
    OBVIOUS
  <2>1. \A g \in Group : ActiveFor(g)' \subseteq ActiveFor(g)
    BY DEF vars, channelVars, ActiveFor
  <2>2. ToldInv' /\ OwesOne'
    BY ToldStep, OwesOneStep DEF CurrentInv, ToldInv, HandInv
  <2>3. LogInv'
    BY StepOfTheLog, LogInvStep DEF CurrentInv
  <2> QED
    BY <2>1, <2>2, <2>3, FannedStep, UnderwayStep DEF CurrentInv
<1>3. CurrentInv /\ NoneGivenUp => CurrentIsAnnounced
  <2> SUFFICES ASSUME CurrentInv, NoneGivenUp, AtRest,
                      NEW e \in DOMAIN events, NEW r \in DOMAIN outbox, OnAir(events[e]), Newest(r, e),
                      NEW c \in ActiveFor(outbox[r].payload.group)
               PROVE  <<c, r>> \in DOMAIN broadcasts
    BY DEF CurrentIsAnnounced
  <2>1. outbox[r].event = e /\ e \notin deleted /\ DOMAIN outbox \subseteq Nat
    BY DEF Newest, CurrentInv, LogInv, LogTypeOK
  <2>2. outbox[r].kind \in Announcing
    <3>1. PICK i \in DOMAIN outbox : Newest(i, e) /\ outbox[i].kind \in Announcing
      BY DEF CurrentInv, LogInv, LogTellsTheTruth
    <3> QED
      BY <2>1, <3>1 DEF Newest
  <2>3. ~Superseded(r)
    BY <2>1 DEF Superseded, Newest
  <2>4. \A t \in DOMAIN fan : fan[t].row # r
    BY <2>1 DEF NoneGivenUp, AtRest
  <2>5. r \in fanned
    BY <2>3, <2>4 DEF AtRest, CurrentInv, ToldInv, HandInv, HandedOut
  <2> QED
    BY <2>1, <2>2, <2>3, <2>5 DEF CurrentInv, FannedOut, Wanted, Covered
<1> QED
  BY <1>1, <1>2, <1>3, PTL DEF DifSpec, NobodyJoins
=============================================================================
