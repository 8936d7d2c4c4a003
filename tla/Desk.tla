-------------------------------- MODULE Desk --------------------------------
(***************************************************************************)
(* The secretary's desk: the month's list (EventosList.tsx), the editor    *)
(* (EventoEditor.tsx) and the confirmation of a delete (DeleteModal.tsx).  *)
(* What they show comes from the query cache; what they ask for is a call  *)
(* that ends later, on whatever page she is by then.                       *)
(***************************************************************************)
EXTENDS Browser

Form == [slot : Slot, group : Group, title : BOOLEAN]
Body(form) == [slot |-> form.slot, group |-> form.group]

-----------------------------------------------------------------------------
(* The list.                                                               *)

ListShown == page.at = "list" /\ Known(cache) /\ ~Failed(cache, EventsQ(page.month))
                              /\ Seen(cache, EventsQ(page.month)) # Nothing
Listed == IF ListShown THEN Seen(cache, EventsQ(page.month)) ELSE {}

\* castsByEvent: the log's rows of one event.
CastOf(e) ==
  LET log == Seen(cache, BroadcastsQ)
      of == IF log = Nothing THEN {} ELSE {k \in DOMAIN log : outbox[k[2]].event = e}
  IN  [total |-> Cardinality(of),
       sent |-> Cardinality({k \in of : log[k] = "sent"}),
       failed |-> \E k \in of : log[k] \in {"failed", "dead"}]

Live == {v \in Listed : ~v.row.cancelled}
TabRows(tab) ==
  CASE tab = "todos" -> Live
    [] tab = "publicados" -> {v \in Live : v.row.published}
    [] tab = "borradores" -> {v \in Live : ~v.row.published}
    [] tab = "fallo" -> {v \in Live : CastOf(v.id).failed}
    [] tab = "cancelados" -> Listed \ Live

TabKey == {"todos", "publicados", "borradores", "fallo", "cancelados"}
Chips == IF TabRows("cancelados") = {} THEN TabKey \ {"cancelados"} ELSE TabKey

\* The tab shown when she last picked this one, maybe in another month.
Active(tab) == IF tab \in Chips THEN tab ELSE "todos"

\* What she does on the screen alone.
Quietly == Pressing /\ UNCHANGED <<officeVars, cache, owed, aged, slips>>

\* The arrows, and Hoy.
StepMonth ==
  /\ page.at = "list" /\ Known(cache)
  /\ \E m \in {page.month - 1, page.month + 1, ThisMonth} \cap Months :
       /\ m # page.month
       /\ Turn(ListPage(m, Nothing))

\* Editar, or the cross of the row, which asks before the editor does.
OpenRow ==
  \E tab \in TabKey, ask \in BOOLEAN : \E v \in TabRows(Active(tab)) : Turn(EditorPage(v.id, ask))

NewEvent ==
  /\ page.at = "list" /\ Known(cache)
  /\ Turn(EditorPage(Nothing, FALSE))

-----------------------------------------------------------------------------
(* The editor.                                                             *)

Editing == page.at = "editor" /\ page.form # Nothing
Current == IF page.id = Nothing THEN Nothing ELSE Seen(cache, EventQ(page.id))
Published == Current # Nothing /\ Current.row.published

\* Mutant: the buttons stay enabled.
NeverBusy == FALSE

Busy == Loading({"create", "update", "publish", "unpublish"})

\* Any field of the form.
EditField ==
  /\ Editing
  /\ \E form \in Form : form # page.form /\ page' = [page EXCEPT !.form = form]
  /\ UNCHANGED calls /\ Quietly

\* save(): a form without a title is not sent.
Save(then) ==
  /\ Editing /\ ~Busy
  /\ IF page.form.title
     THEN /\ Send(Call(IF page.id = Nothing THEN "create" ELSE "update", page.id, Body(page.form), then))
          /\ page' = [page EXCEPT !.error = FALSE]
     ELSE Pressing /\ page' = [page EXCEPT !.error = TRUE] /\ UNCHANGED calls
  /\ UNCHANGED <<officeVars, cache, owed, aged, slips>>

\* Guardar cambios, or Guardar borrador.
PressSave == Save("list")

\* Publicar y difundir, offered for what the screen knows as a draft.
PressPublish == Editing /\ ~Published /\ Save("publish")

PressUnpublish ==
  /\ Editing /\ ~Busy /\ Published
  /\ Send(Call("unpublish", page.id, Body(page.form), "list"))
  /\ page' = [page EXCEPT !.error = FALSE]
  /\ UNCHANGED <<officeVars, cache, owed, aged, slips>>

-----------------------------------------------------------------------------
(* The confirmation of a delete.                                           *)

Asked == Editing /\ page.ask /\ Current # Nothing

AskDelete ==
  /\ Editing /\ page.id # Nothing /\ ~page.ask
  /\ page' = [page EXCEPT !.ask = TRUE]
  /\ UNCHANGED calls /\ Quietly

\* The box is there for a published event only.
ToggleNotify ==
  /\ Asked /\ Published
  /\ page' = [page EXCEPT !.notify = ~@]
  /\ UNCHANGED calls /\ Quietly

\* Conservarlo waits for the delete to end, a click beside the box does not.
CloseAsk ==
  /\ Asked
  /\ page' = [page EXCEPT !.ask = FALSE, !.notify = TRUE, !.fault = FALSE]
  /\ calls' = {IF c.op = "delete" /\ c.from = "screen" THEN [c EXCEPT !.from = "left"] ELSE c : c \in calls}
  /\ Quietly

\* rest, others0: history, whether anything was under way or unknown to the
\* page when she pressed, and what others had done by then.
ConfirmDelete ==
  /\ Asked /\ ~Loading({"delete"})
  /\ Send(Call("delete", page.id,
               [notify |-> Published /\ page.notify, published |-> Published,
                rest |-> AtRest /\ EventQ(page.id) \notin aged /\ ~Failed(cache, EventQ(page.id)),
                others0 |-> others], "list"))
  /\ page' = [page EXCEPT !.fault = FALSE]
  /\ UNCHANGED <<officeVars, cache, owed, aged, slips>>

-----------------------------------------------------------------------------
(* The server handles a call (http/admin_events.go).                       *)

EventOps == {"create", "update", "publish", "unpublish", "delete"}

\* Its change of the tables; when there is none to make it is refused.  Ids
\* and outbox are bounded: a server that has none left refuses too.
Apply(c, e) ==
  CASE c.op = "create" -> CreateEvent(e, c.body)
    [] c.op = "update" -> UpdateEvent(e, c.body)
    [] c.op = "publish" -> PublishEvent(e)
    [] c.op = "unpublish" -> UnpublishEvent(e)
    [] c.op = "delete" -> DeleteEvent(e, c.body.notify)

Applicable(c, e) ==
  /\ Len(outbox) < MaxOutbox
  /\ CASE c.op = "create" -> e \notin DOMAIN events \cup deleted
       [] c.op \in {"update", "delete"} -> e \in DOMAIN events
       [] c.op = "publish" -> e \in DOMAIN events /\ ~events[e].published
       [] c.op = "unpublish" -> e \in DOMAIN events /\ events[e].published

Targets(c) == {e \in (IF c.op = "create" THEN Event ELSE {c.on}) : Applicable(c, e)}

HandleEvent(c) ==
  /\ c \in calls /\ c.stage = "sent" /\ c.op \in EventOps
  /\ IF SignedIn /\ Targets(c) # {}
     THEN /\ \E e \in Targets(c) :
               /\ Apply(c, e) /\ Cascade /\ Answer(c, e, "ok") /\ Ages(c)
               /\ page' = IF c.op = "create" /\ c.from = "screen"
                          THEN [page EXCEPT !.made = @ \cup {e}] ELSE page
          /\ UNCHANGED <<channels, team, session, others>>
     ELSE Refuse(c)
  /\ UNCHANGED <<cache, owed, presses, slips>>

-----------------------------------------------------------------------------
(* A call ends.                                                            *)

\* Mutant: back to the list as it was, whatever month the event is in.
BackToListBlind(month, back) == IF page.at = "list" THEN page ELSE ListPage(ThisMonth, back)

\* The list opens on the month of the form, unless she is on it already.
BackToList(month, back) == IF page.at = "list" THEN page ELSE ListPage(month, back)

Stumble(c) ==
  IF c.from # "screen" THEN page
  ELSE IF c.op = "delete" THEN [page EXCEPT !.fault = TRUE]
  ELSE [page EXCEPT !.error = TRUE, !.stumbled = page.made # {}]

\* Publicar goes on to publish what was saved, in its own call.
FinishEvent(c) ==
  /\ c \in calls /\ c.stage # "sent" /\ c.op \in EventOps
  /\ IF c.stage # "ok" THEN Finish(c, Stumble(c), {})
     ELSE IF c.then = "publish"
     THEN Finish(c, page, {[c EXCEPT !.op = "publish", !.then = "list", !.stage = "sent"]})
     ELSE IF c.op = "delete" THEN Finish(c, BackToList(ThisMonth, Nothing), {})
     ELSE Finish(c, BackToList(MonthOf[c.body.slot], [id |-> c.on, slot |-> c.body.slot]), {})

DeskPress ==
  \/ StepMonth \/ OpenRow \/ NewEvent
  \/ EditField \/ PressSave \/ PressPublish \/ PressUnpublish
  \/ AskDelete \/ ToggleNotify \/ CloseAsk \/ ConfirmDelete
  \/ Visit(ListPage(ThisMonth, Nothing))

DeskStep == \E c \in calls : HandleEvent(c) \/ FinishEvent(c)
=============================================================================
