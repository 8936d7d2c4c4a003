------------------------------- MODULE Office -------------------------------
(***************************************************************************)
(* What stands behind the admin panel: the tables its requests read and    *)
(* write, and everyone else who changes them.  Events and outbox are those *)
(* of EventLog.tla, broadcasts change as Ledger.tla promises, the session  *)
(* is that of the one browser the panel modules follow.                    *)
(***************************************************************************)
EXTENDS EventLog, Ledger, FiniteSets

CONSTANTS
  Channel,    \* ids
  Parish,     \* the group_id NULL of a channel addressed to everyone
  Person,     \* accounts
  Self,       \* the account that signs in on the browser
  MaxOthers   \* bound: what others change meanwhile

ASSUME OfficeAssumption ==
  /\ Key = Channel \X (1..MaxOutbox)
  /\ Parish \notin Group /\ Self \in Person /\ MaxOthers \in Nat

VARIABLES
  channels,   \* table: id -> [group, active]
  team,       \* table users: account -> [role, active]
  session,    \* the browser's session is valid, its account aside
  others      \* how much of MaxOthers is used up

officeVars == <<logVars, ledgerVars, channels, team, session, others>>

Role == {"parroco", "secretaria"}
ChannelRow == [group : Group \cup {Parish}, active : BOOLEAN]
Account == [role : Role, active : BOOLEAN]

OfficeTypeOK ==
  /\ LogTypeOK /\ LedgerTypeOK
  /\ IsTable(channels, Channel, ChannelRow)
  /\ IsTable(team, Person, Account)
  /\ session \in BOOLEAN /\ others \in 0..MaxOthers

\* An office with a history: what its tables hold when the browser is opened.
IsOffice(o) ==
  /\ IsTable(o.events, Event, EventRow)
  /\ o.outbox \in Seq(OutboxRow) /\ Len(o.outbox) <= MaxOutbox
  /\ IsTable(o.rows, Key, RowState)
  /\ IsTable(o.channels, Channel, ChannelRow) /\ IsTable(o.team, Person, Account)
  /\ o.session \in BOOLEAN /\ o.others \in 0..MaxOthers

OfficeInit(o) ==
  /\ events = o.events /\ deleted = {} /\ outbox = o.outbox
  /\ rows = o.rows /\ loose = {}
  /\ channels = o.channels /\ team = o.team
  /\ session = o.session /\ others = o.others

\* requireSession, requireParroco
SignedIn == session /\ Self \in DOMAIN team /\ team[Self].active
Manages == SignedIn /\ team[Self].role = "parroco"

-----------------------------------------------------------------------------
(* Writes, without the guards of who may make them.                        *)

\* The rows of a deleted event go with it (ON DELETE CASCADE).
Cascade ==
  LET gone == {k \in DOMAIN rows : outbox[k[2]].event \notin DOMAIN events'}
  IN  IF gone = {} THEN UNCHANGED ledgerVars ELSE Drop(gone)

\* broadcasts.channel_id has no cascade: a channel with history stays.
Referenced(c) == \E k \in DOMAIN rows : k[1] = c

-----------------------------------------------------------------------------
(* The worker.                                                             *)

ActiveFor(group) == {c \in DOMAIN channels : /\ channels[c].active
                                             /\ channels[c].group \in {group, Parish}}

\* A row is recorded for a recipient while its event is there.
Announce(k) ==
  /\ k[2] \in DOMAIN outbox /\ k[1] \in DOMAIN channels
  /\ outbox[k[2]].event \in DOMAIN events
  /\ IF outbox[k[2]].kind = "cancelled"
     THEN \E r \in DOMAIN outbox : /\ outbox[r].event = outbox[k[2]].event
                                   /\ <<k[1], r>> \in DOMAIN rows /\ rows[<<k[1], r>>] = "sent"
     ELSE k[1] \in ActiveFor(outbox[k[2]].payload.group)
  /\ Record(k)
  /\ UNCHANGED <<logVars, channels, team, session, others>>

\* A failed attempt may be followed by another (asynq).
Deliver(k) ==
  /\ k \in DOMAIN rows /\ rows[k] \in {"queued", "failed"}
  /\ \E state \in RowState \ {"queued"} : Attempt(k, state)
  /\ UNCHANGED <<logVars, channels, team, session, others>>

-----------------------------------------------------------------------------
(* Other people of the office, and time that ends a session.               *)

OthersEvents == LogNext /\ Cascade /\ UNCHANGED <<channels, team, session>>

OthersChannels ==
  /\ \/ \E c \in Channel, row \in ChannelRow : channels' = Put(channels, c, row)
     \/ \E c \in DOMAIN channels : ~Referenced(c) /\ channels' = Without(channels, c)
  /\ UNCHANGED <<logVars, ledgerVars, team, session>>

OthersTeam ==
  /\ \E p \in Person, account \in Account : team' = Put(team, p, account)
  /\ UNCHANGED <<logVars, ledgerVars, channels, session>>

SessionEnds ==
  /\ session /\ session' = FALSE
  /\ UNCHANGED <<logVars, ledgerVars, channels, team>>

Others ==
  /\ others < MaxOthers /\ others' = others + 1
  /\ OthersEvents \/ OthersChannels \/ OthersTeam \/ SessionEnds
=============================================================================
