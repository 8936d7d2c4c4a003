------------------------------- MODULE Avisos -------------------------------
(***************************************************************************)
(* The screen "A dónde se fue cada aviso": the log of broadcasts with its  *)
(* retry button and its polling (Difusion.tsx), and the card of channels   *)
(* beside it (ChannelsCard.tsx).                                           *)
(***************************************************************************)
EXTENDS Browser

\* The cards are there once the log has come, and go when it fails.
LogShown == /\ page.at = "difusion" /\ Known(cache)
            /\ Seen(cache, BroadcastsQ) # Nothing /\ ~Failed(cache, BroadcastsQ)
Log == IF LogShown THEN Seen(cache, BroadcastsQ) ELSE NoRows

isFailing(state) == state \in {"failed", "dead"}
AnyQueued == \E k \in DOMAIN Log : Log[k] = "queued"
LogTab(tab) ==
  {k \in DOMAIN Log : CASE tab = "todos" -> TRUE
                        [] tab = "fallos" -> isFailing(Log[k])
                        [] tab = "cola" -> Log[k] = "queued"
                        [] tab = "entregados" -> Log[k] = "sent"}

\* Mutant: the log is polled only when it holds nothing queued.
PollIdle ==
  /\ LogShown /\ ~AnyQueued
  /\ cache[BroadcastsQ].state = "done"
  /\ cache' = [cache EXCEPT ![BroadcastsQ] = Asking(@.data)]
  /\ UNCHANGED <<officeVars, page, calls, owed, aged, presses, slips>>

\* Every five seconds while the data it has holds a queued row, even if the
\* last poll failed; a poll under way is not joined by another.
Poll ==
  /\ page.at = "difusion" /\ Known(cache)
  /\ Seen(cache, BroadcastsQ) # Nothing
  /\ \E k \in DOMAIN Seen(cache, BroadcastsQ) : Seen(cache, BroadcastsQ)[k] = "queued"
  /\ cache[BroadcastsQ].state \in {"done", "failed"}
  /\ cache' = [cache EXCEPT ![BroadcastsQ] = Asking(@.data)]
  /\ UNCHANGED <<officeVars, page, calls, owed, aged, presses, slips>>

LoadingOn(ops, on) == \E c \in calls : c.from = "screen" /\ c.op \in ops /\ c.on = on

\* Reintentar ahora, on a row that failed.
PressRetry ==
  /\ \E k \in LogTab("fallos") :
       ~LoadingOn({"retry"}, k) /\ Send(Call("retry", k, Nothing, Nothing))
  /\ UNCHANGED <<officeVars, page, cache, owed, aged, slips>>

-----------------------------------------------------------------------------
(* The channels: one row at a time is a form, or the new one is.           *)

New == "new"
ASSUME AvisosAssumption == Nothing \notin Channel \cup {New} /\ New \notin Channel

BlankChannel == [group |-> Parish, active |-> TRUE]
ChannelRows == IF LogShown /\ Seen(cache, ChannelsQ) # Nothing THEN Seen(cache, ChannelsQ) ELSE NoRows

\* The form is drawn where its row is: a row that is gone takes it away.
FormOpen == LogShown /\ page.editing \in {New} \cup DOMAIN ChannelRows
FormBusy == IF page.editing = New THEN LoadingOn({"newChannel"}, Nothing)
            ELSE LoadingOn({"saveChannel"}, page.editing)

OnCard == Pressing /\ UNCHANGED <<officeVars, cache, calls, owed, aged, slips>>

NewChannel ==
  /\ LogShown /\ page.editing = Nothing
  /\ page' = [page EXCEPT !.editing = New, !.form = BlankChannel]
  /\ OnCard

\* Editar, on any row that is not the form already: its copy is what is edited.
EditChannel ==
  /\ \E c \in DOMAIN ChannelRows :
       c # page.editing /\ page' = [page EXCEPT !.editing = c, !.form = ChannelRows[c]]
  /\ OnCard

TypeChannel ==
  /\ FormOpen
  /\ \E row \in ChannelRow : row # page.form /\ page' = [page EXCEPT !.form = row]
  /\ OnCard

CancelChannel ==
  /\ FormOpen /\ ~FormBusy
  /\ page' = [page EXCEPT !.editing = Nothing, !.form = Nothing]
  /\ OnCard

SaveChannel ==
  /\ FormOpen /\ ~FormBusy
  /\ Send(IF page.editing = New THEN Call("newChannel", Nothing, page.form, Nothing)
          ELSE Call("saveChannel", page.editing, page.form, Nothing))
  /\ UNCHANGED <<officeVars, page, cache, owed, aged, slips>>

\* The cross of a row that is not a form.
DropChannel ==
  /\ LogShown
  /\ \E c \in DOMAIN ChannelRows \ {page.editing} :
       ~LoadingOn({"dropChannel"}, c) /\ Send(Call("dropChannel", c, Nothing, Nothing))
  /\ UNCHANGED <<officeVars, page, cache, owed, aged, slips>>

-----------------------------------------------------------------------------
(* The server (http/admin_broadcasts.go, http/admin_channels.go).          *)

AvisosOps == {"retry", "newChannel", "saveChannel", "dropChannel"}

Unaged(c) == Ages(c) /\ UNCHANGED <<logVars, team, session, others, page>>

\* The row is reset whether or not its delivery can then be enqueued.
HandleRetry(c) ==
  /\ Reset(c.on) /\ UNCHANGED channels
  /\ \E stage \in {"ok", "refused"} : Answer(c, c.on, stage)

HandleChannel(c) ==
  /\ \/ /\ c.op = "newChannel"
        /\ \E id \in Channel \ DOMAIN channels : channels' = Put(channels, id, c.body)
     \/ /\ c.op = "saveChannel" /\ c.on \in DOMAIN channels
        /\ channels' = Put(channels, c.on, c.body)
     \/ /\ c.op = "dropChannel" /\ c.on \in DOMAIN channels /\ ~Referenced(c.on)
        /\ channels' = Without(channels, c.on)
  /\ UNCHANGED ledgerVars
  /\ Answer(c, c.on, "ok")

\* Ids are bounded: a server with none left refuses.
AvisosApplies(c) ==
  CASE c.op = "retry" -> c.on \in DOMAIN rows /\ isFailing(rows[c.on])
    [] c.op = "newChannel" -> Channel # DOMAIN channels
    [] c.op = "saveChannel" -> c.on \in DOMAIN channels
    [] c.op = "dropChannel" -> c.on \in DOMAIN channels /\ ~Referenced(c.on)

HandleAvisos(c) ==
  /\ c \in calls /\ c.stage = "sent" /\ c.op \in AvisosOps
  /\ IF SignedIn /\ AvisosApplies(c)
     THEN Unaged(c) /\ IF c.op = "retry" THEN HandleRetry(c) ELSE HandleChannel(c)
     ELSE Refuse(c)
  /\ UNCHANGED <<cache, owed, presses, slips>>

\* Saved, the form closes: whichever form is open by then.
FinishAvisos(c) ==
  /\ c \in calls /\ c.stage # "sent" /\ c.op \in AvisosOps
  /\ Finish(c, IF c.from = "screen" /\ c.stage = "ok" /\ c.op \in {"newChannel", "saveChannel"}
               THEN [page EXCEPT !.editing = Nothing, !.form = Nothing] ELSE page, {})

AvisosPress ==
  \/ PressRetry \/ NewChannel \/ EditChannel \/ TypeChannel \/ CancelChannel \/ SaveChannel
  \/ DropChannel \/ Visit(LogPage)
AvisosStep == \E c \in calls : HandleAvisos(c) \/ FinishAvisos(c)
=============================================================================
