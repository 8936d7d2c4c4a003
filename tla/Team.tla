-------------------------------- MODULE Team --------------------------------
(***************************************************************************)
(* "Equipo y permisos" (Equipo.tsx): the párroco invites somebody, changes *)
(* a role, takes access away or gives it back.                             *)
(***************************************************************************)
EXTENDS Browser

TeamShown == /\ page.at = "equipo" /\ Known(cache)
             /\ Seen(cache, UsersQ) # Nothing /\ ~Failed(cache, UsersQ)
People == IF TeamShown THEN Seen(cache, UsersQ) ELSE NoRows

Waiting(ops, p) == \E c \in calls : c.from = "screen" /\ c.op \in ops /\ c.on = p
OnCards == Pressing /\ UNCHANGED <<officeVars, cache, calls, owed, aged, slips>>
Ask == UNCHANGED <<officeVars, page, cache, owed, aged, slips>>

\* + Invitar a alguien, and Cancelar.
OpenInvite == TeamShown /\ ~page.inviting /\ page' = [page EXCEPT !.inviting = TRUE] /\ OnCards
CloseInvite ==
  /\ TeamShown /\ page.inviting /\ ~Waiting({"invite"}, Nothing)
  /\ page' = [page EXCEPT !.inviting = FALSE]
  /\ OnCards

\* Crear cuenta, for somebody's address, with no password.
Invite ==
  /\ TeamShown /\ page.inviting /\ ~Waiting({"invite"}, Nothing)
  /\ \E p \in Person, role \in Role :
       Send(Call("invite", Nothing, [person |-> p, role |-> role], Nothing))
  /\ Ask

\* Each card is edited on its own, from the role it shows.
EditRole ==
  /\ TeamShown
  /\ \E p \in DOMAIN People \ DOMAIN page.editing :
       page' = [page EXCEPT !.editing = Put(@, p, People[p].role)]
  /\ OnCards
PickRole ==
  /\ TeamShown
  /\ \E p \in DOMAIN page.editing, role \in Role :
       role # page.editing[p] /\ page' = [page EXCEPT !.editing[p] = role]
  /\ OnCards
CancelRole ==
  /\ TeamShown
  /\ \E p \in DOMAIN page.editing :
       ~Waiting({"saveRole"}, p) /\ page' = [page EXCEPT !.editing = Without(@, p)]
  /\ OnCards
SaveRole ==
  /\ TeamShown
  /\ \E p \in DOMAIN page.editing :
       ~Waiting({"saveRole"}, p) /\ Send(Call("saveRole", p, page.editing[p], Nothing))
  /\ Ask

\* Quitar acceso or Reactivar, never one's own; what is sent is the opposite
\* of what the card shows.
ToggleActive ==
  /\ \E p \in DOMAIN People \ {Self} :
       ~Waiting({"setActive"}, p) /\ Send(Call("setActive", p, ~People[p].active, Nothing))
  /\ Ask

-----------------------------------------------------------------------------
(* The server (http/admin_users.go, behind requireParroco).                *)

TeamOps == {"invite", "saveRole", "setActive"}

\* An address is one account's; nobody takes their own access away.
TeamApplies(c) ==
  CASE c.op = "invite" -> c.body.person \notin DOMAIN team
    [] c.op = "saveRole" -> c.on \in DOMAIN team
    [] c.op = "setActive" -> c.on \in DOMAIN team /\ (c.on = Self => c.body)

TeamAfter(c) ==
  CASE c.op = "invite" -> Put(team, c.body.person, [role |-> c.body.role, active |-> TRUE])
    [] c.op = "saveRole" -> [team EXCEPT ![c.on].role = c.body]
    [] c.op = "setActive" -> [team EXCEPT ![c.on].active = c.body]

HandleTeam(c) ==
  /\ c \in calls /\ c.stage = "sent" /\ c.op \in TeamOps
  /\ IF Manages /\ TeamApplies(c)
     THEN /\ team' = TeamAfter(c)
          /\ Answer(c, c.on, "ok") /\ Ages(c)
          /\ UNCHANGED <<logVars, ledgerVars, channels, session, others, page>>
     ELSE Refuse(c)
  /\ UNCHANGED <<cache, owed, presses, slips>>

\* Mutant: a saved role ends every other edit.
SavedAll(c) ==
  IF c.stage # "ok" \/ c.from # "screen" THEN page
  ELSE IF c.op = "saveRole" THEN [page EXCEPT !.editing = Nothing] ELSE page

\* The invitation is put away by the screen itself, whatever became of its card.
Saved(c) ==
  IF c.stage # "ok" \/ c.from \notin {"screen", "card"} THEN page
  ELSE IF c.op = "invite" THEN [page EXCEPT !.inviting = FALSE]
  ELSE IF c.op = "saveRole" /\ c.from = "screen" THEN [page EXCEPT !.editing = Without(@, c.on)]
  ELSE page

FinishTeam(c) ==
  /\ c \in calls /\ c.stage # "sent" /\ c.op \in TeamOps
  /\ Finish(c, Saved(c), {})

TeamPress ==
  \/ OpenInvite \/ CloseInvite \/ Invite \/ EditRole \/ PickRole \/ CancelRole \/ SaveRole
  \/ ToggleActive
  \/ Known(cache) /\ Seen(cache, MeQ) = "parroco" /\ Visit(TeamPage)
TeamStep == \E c \in calls : HandleTeam(c) \/ FinishTeam(c)
=============================================================================
