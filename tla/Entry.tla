------------------------------- MODULE Entry --------------------------------
(***************************************************************************)
(* The way in and out of the panel: Login.tsx, the sign-out of Shell.tsx,  *)
(* and the session behind them (http/auth.go).                             *)
(***************************************************************************)
EXTENDS Browser

EntryOps == {"login", "logout", "magicLink"}

\* The form is hidden while the browser asks whether somebody is signed in.
FormShown == page.at = "login" /\ (MeQ \in DOMAIN cache => cache[MeQ].state \in {"done", "failed"})

\* Entrar, with the right password or a wrong one.
PressLogin ==
  /\ FormShown /\ ~Loading({"login"})
  /\ \E right \in BOOLEAN : Send(Call("login", Nothing, [right |-> right], "list"))
  /\ UNCHANGED <<officeVars, page, cache, owed, aged, slips>>

PressMagicLink ==
  /\ FormShown /\ ~page.sent /\ ~Loading({"magicLink"})
  /\ Send(Call("magicLink", Nothing, Nothing, Nothing))
  /\ UNCHANGED <<officeVars, page, cache, owed, aged, slips>>

\* The link of the mail sets the cookie and opens the panel anew.
OpenLink ==
  /\ page.at = "login" /\ page.sent /\ team[Self].active
  /\ Pressing /\ session' = TRUE
  /\ Reloaded(ListPage(ThisMonth, Nothing), calls)
  /\ UNCHANGED <<logVars, ledgerVars, channels, team, others, slips>>

SignOut ==
  /\ page.at # "login" /\ Known(cache)
  /\ Send(Call("logout", Nothing, Nothing, Nothing))
  /\ UNCHANGED <<officeVars, page, cache, owed, aged, slips>>

HandleEntry(c) ==
  /\ c \in calls /\ c.stage = "sent" /\ c.op \in EntryOps
  /\ IF c.op = "login" /\ ~(c.body.right /\ team[Self].active)
     THEN Answer(c, Nothing, "refused") /\ UNCHANGED session
     ELSE /\ Answer(c, Nothing, "ok")
          /\ session' = (c.op = "login" \/ (c.op = "magicLink" /\ session))
  /\ UNCHANGED <<logVars, ledgerVars, channels, team, others, page, cache, owed, aged, presses, slips>>

\* A sign-out ends on a page loaded anew, whether the server heard of it or not.
FinishEntry(c) ==
  /\ c \in calls /\ c.stage # "sent" /\ c.op \in EntryOps
  /\ IF c.op = "logout" /\ c.from # "gone"
     THEN Reloaded(LoginPage, calls \ {c}) /\ UNCHANGED <<officeVars, presses, slips>>
     ELSE IF c.stage = "ok" /\ c.op = "login"
     THEN Finish(c, IF page.at = "list" THEN page ELSE ListPage(ThisMonth, Nothing), {})
     ELSE Finish(c, IF c.from # "screen" THEN page
                    ELSE [page EXCEPT !.error = c.stage # "ok",
                                      !.sent = @ \/ (c.op = "magicLink" /\ c.stage = "ok")], {})

EntryPress == PressLogin \/ PressMagicLink \/ OpenLink \/ SignOut
EntryStep == \E c \in calls : HandleEntry(c) \/ FinishEntry(c)
=============================================================================
