------------------------------ MODULE Browser -------------------------------
(***************************************************************************)
(* One browser on the admin panel: the page it shows and the query cache   *)
(* of frontend/src/admin/api.ts.  RTK Query is external and modelled from  *)
(* its use: a query is asked once however many hooks use it, its answer is *)
(* the server's state at one moment and arrives at a later one or never; a *)
(* mutation that ends, well or badly, makes the cached queries with its    *)
(* tags stale, and once nothing is under way those in use are asked again  *)
(* and the others forgotten.                                               *)
(***************************************************************************)
EXTENDS Office

CONSTANTS
  Nothing,    \* no value
  MonthOf,    \* the month each slot is in
  Months,     \* the months the list can show
  ThisMonth,
  MaxPresses, \* bound: what the secretary presses and types
  MaxCalls,   \* bound: mutations under way at one time
  MaxSlips    \* bound: requests or answers the network loses

ASSUME BrowserAssumption ==
  /\ MonthOf \in [Slot -> Months] /\ ThisMonth \in Months
  /\ {MaxPresses, MaxCalls, MaxSlips} \subseteq Nat
  /\ Nothing \notin Role
  /\ Group # {} /\ \E s \in Slot : MonthOf[s] = ThisMonth  \* what a blank form is filled with

VARIABLES
  page,       \* the screen and its own state
  cache,      \* query -> [state, data, reply]
  calls,      \* mutations under way
  owed,       \* tags made stale and not yet asked again
  aged,       \* history: cached queries others changed since the server read them
  presses, slips

pageVars == <<page, cache, calls, owed, aged>>
panelVars == <<officeVars, pageVars, presses, slips>>

-----------------------------------------------------------------------------
(* Queries and tags.                                                       *)

MeQ == <<"me">>
EventsQ(month) == <<"events", month>>
EventQ(e) == <<"event", e>>
BroadcastsQ == <<"broadcasts">>
ChannelsQ == <<"channels">>
UsersQ == <<"users">>

TagOf(q) == [me |-> "Me", events |-> "Events", event |-> "Events",
             broadcasts |-> "Broadcasts", channels |-> "Channels", users |-> "Users"][q[1]]

EVENT_TAGS == {"Events", "Broadcasts"}

\* Mutant: the event mutations leave the difusión log alone.
InvalidatesEventsOnly(op) ==
  CASE op \in {"create", "update", "publish", "unpublish", "delete"} -> {"Events"}
    [] op = "retry" -> {"Broadcasts"}
    [] op \in {"newChannel", "saveChannel", "dropChannel"} -> {"Channels"}
    [] op \in {"invite", "saveRole", "setActive"} -> {"Users"}
    [] op \in {"login", "logout"} -> {"Me"}
    [] OTHER -> {}

Invalidates(op) ==
  CASE op \in {"create", "update", "publish", "unpublish", "delete"} -> EVENT_TAGS
    [] op = "retry" -> {"Broadcasts"}
    [] op \in {"newChannel", "saveChannel", "dropChannel"} -> {"Channels"}
    [] op \in {"invite", "saveRole", "setActive"} -> {"Users"}
    [] op \in {"login", "logout"} -> {"Me"}
    [] OTHER -> {}

\* What the endpoint answers with.
View(e) == [id |-> e, row |-> events[e]]
Allowed(q) == /\ q[1] = "event" => q[2] \in DOMAIN events
              /\ q[1] = "users" => Manages
Read(q) ==
  CASE q[1] = "me" -> team[Self].role
    [] q[1] = "events" -> {View(e) : e \in {d \in DOMAIN events : MonthOf[events[d].slot] = q[2]}}
    [] q[1] = "event" -> View(q[2])
    [] q[1] = "broadcasts" -> rows
    [] q[1] = "channels" -> channels
    [] q[1] = "users" -> team

-----------------------------------------------------------------------------
(* Pages (App.tsx) and the queries their hooks use.                        *)

LoginPage == [at |-> "login", error |-> FALSE, sent |-> FALSE]
\* back: history, the event the list was opened to show, and as it was saved
ListPage(month, back) == [at |-> "list", month |-> month, back |-> back]
\* made: history, what this visit of the editor has created; stumbled: an
\* error was shown after that
EditorPage(id, ask) ==
  [at |-> "editor", id |-> id, form |-> Nothing, error |-> FALSE, ask |-> ask,
   notify |-> TRUE, fault |-> FALSE, made |-> {}, stumbled |-> FALSE]
\* editing: the channel whose row is a form; the accounts whose role is one
LogPage == [at |-> "difusion", editing |-> Nothing, form |-> Nothing]
TeamPage == [at |-> "equipo", inviting |-> FALSE, editing |-> NoRows]

ShellQueries == {MeQ, EventsQ(ThisMonth), BroadcastsQ}
ScreenQueries(p) ==
  CASE p.at = "login" -> {MeQ}
    [] p.at = "list" -> {EventsQ(p.month), BroadcastsQ}
    [] p.at = "editor" -> {ChannelsQ, BroadcastsQ} \cup (IF p.id = Nothing THEN {} ELSE {EventQ(p.id)})
    [] p.at = "difusion" -> {BroadcastsQ, ChannelsQ}
    [] p.at = "equipo" -> {UsersQ}

Seen(c, q) == IF q \in DOMAIN c THEN c[q].data ELSE Nothing
Failed(c, q) == q \in DOMAIN c /\ c[q].state = "failed"

\* RequireSession: until the account is known nothing else is there.
Known(c) == Seen(c, MeQ) # Nothing
Uses(p, c) ==
  IF p.at = "login" \/ ~Known(c) THEN {MeQ} ELSE ShellQueries \cup ScreenQueries(p)

\* Where the gates of the routes send the page.
Routed(p, c) ==
  IF p.at = "login" THEN IF Known(c) THEN ListPage(ThisMonth, Nothing) ELSE p
  ELSE IF Failed(c, MeQ) THEN LoginPage
  ELSE IF p.at = "equipo" /\ Seen(c, MeQ) = "secretaria" THEN ListPage(ThisMonth, Nothing)
  ELSE p

BlankForm == [slot |-> CHOOSE s \in Slot : MonthOf[s] = ThisMonth,
              group |-> CHOOSE g \in Group : TRUE, title |-> FALSE]
FromEvent(view) == [slot |-> view.row.slot, group |-> view.row.group, title |-> TRUE]

\* Mutant: the form follows the event whenever it is read again.
SeededAlways(p, c) ==
  IF p.at = "editor" /\ Known(c) /\ p.id # Nothing /\ Seen(c, EventQ(p.id)) # Nothing
  THEN [p EXCEPT !.form = FromEvent(Seen(c, EventQ(p.id)))]
  ELSE p

\* The editor's form is seeded once, from the event or blank.
Seeded(p, c) ==
  IF p.at # "editor" \/ ~Known(c) THEN p
  ELSE IF p.form # Nothing THEN p
  ELSE IF p.id = Nothing THEN [p EXCEPT !.form = BlankForm]
  ELSE IF Seen(c, EventQ(p.id)) # Nothing
       THEN [p EXCEPT !.form = FromEvent(Seen(c, EventQ(p.id)))]
  ELSE p

\* A screen whose query has failed shows the error in place of its cards, and
\* what was being typed in them is gone.
CardsGone(p, c) == \/ p.at = "difusion" /\ Failed(c, BroadcastsQ)
                   \/ p.at = "equipo" /\ Failed(c, UsersQ)
Kept(p, c) ==
  IF ~CardsGone(p, c) THEN p
  ELSE IF p.at = "difusion" THEN LogPage ELSE [p EXCEPT !.editing = NoRows]

-----------------------------------------------------------------------------
(* The cache.                                                              *)

InFlight == {"asked", "answered", "refused", "unauthorized"}
Asking(data) == [state |-> "asked", data |-> data, reply |-> Nothing]

\* Hooks mount: what is not there yet, or only failed, is asked for.
Mounted(c, used) ==
  [q \in DOMAIN c \cup used |->
     IF q \in DOMAIN c
     THEN IF q \in used /\ c[q].state = "failed" /\ c[q].data = Nothing THEN Asking(Nothing) ELSE c[q]
     ELSE Asking(Nothing)]

Quiet(c, waiting) == waiting = {} /\ \A q \in DOMAIN c : c[q].state \notin InFlight

\* Stale queries: those in use are asked again, the others forgotten.
Refetched(c, tags, used) ==
  [q \in {d \in DOMAIN c : TagOf(d) \notin tags \/ d \in used} |->
     IF TagOf(q) \in tags THEN Asking(c[q].data) ELSE c[q]]

Here(p) == <<p.at, IF p.at = "editor" THEN p.id ELSE Nothing>>
Mounting(p, c) ==
  IF p.at = page.at /\ Known(c) = Known(cache) THEN Uses(p, c) \ Uses(page, cache)
  ELSE IF page.at = "login" \/ ~Known(cache) THEN Uses(p, c)
  ELSE ScreenQueries(p)

\* The calls of a card or a screen that is gone end all the same; nobody sees how.
Orphaned(cs, from) == {IF c.from \in {"screen", "card"} THEN [c EXCEPT !.from = from] ELSE c : c \in cs}

\* What the browser shows next: page p, unless a gate says otherwise.  (The
\* values are named with \E: TLC works out an argument each time it is used.)
Show(p, c, cs) ==
  \E routed \in {Routed(p, c)} : \E kept \in {Kept(routed, c)} : \E next \in {Seeded(kept, c)} :
    /\ page' = next
    /\ cache' = Mounted(c, Mounting(next, c))
    /\ calls' = IF Here(next) # Here(page) THEN Orphaned(cs, "left")
                ELSE IF CardsGone(next, c) THEN Orphaned(cs, "card") ELSE cs

\* Calls of a page that is gone are not this page's.
Held(cs) == {c \in cs : c.from # "gone"}

\* Mutant: only the end of a mutation has stale queries asked again.
SettleOnCalls(p, c, cs, more, tags) ==
  \E quiet \in {Quiet(c, Held(cs)) /\ cs # calls} :
  \E fresh \in {IF quiet THEN Refetched(c, tags, Uses(page, c)) ELSE c} :
    Show(p, fresh, cs \cup more) /\ owed' = IF quiet THEN {} ELSE tags

\* Something has ended: what it leaves under way decides when stale queries go.
Settle(p, c, cs, more, tags) ==
  \E quiet \in {Quiet(c, Held(cs))} :
  \E fresh \in {IF quiet THEN Refetched(c, tags, Uses(page, c)) ELSE c} :
    Show(p, fresh, cs \cup more) /\ owed' = IF quiet THEN {} ELSE tags

\* Mutant: the login screen is shown on the page as it stands.
ReloadedSoftly(p, cs) ==
  /\ page' = p /\ cache' = cache
  /\ calls' = Orphaned(cs, "left") /\ UNCHANGED <<owed, aged>>

\* location.assign, or a link from outside: everything the page knew is gone.
Reloaded(p, cs) ==
  /\ page' = p /\ cache' = [q \in {MeQ} |-> Asking(Nothing)]
  /\ calls' = {[c EXCEPT !.from = "gone"] : c \in cs}
  /\ owed' = {} /\ aged' = {}

-----------------------------------------------------------------------------
(* A query: the server reads, the answer arrives, or fails to.             *)

Serve(q) ==
  /\ q \in DOMAIN cache /\ cache[q].state = "asked"
  /\ LET fine == SignedIn /\ Allowed(q)
     IN  /\ cache' = [cache EXCEPT ![q].state = IF fine THEN "answered"
                                                ELSE IF SignedIn THEN "refused" ELSE "unauthorized",
                                   ![q].reply = IF fine THEN Read(q) ELSE Nothing]
         /\ aged' = IF fine THEN aged \ {q} ELSE aged
  /\ UNCHANGED <<officeVars, page, calls, owed, presses, slips>>

AtRest == Quiet(cache, calls) /\ owed = {}

Slip == slips < MaxSlips /\ slips' = slips + 1

LoseQuery(q) ==
  /\ q \in DOMAIN cache /\ cache[q].state \in {"asked", "answered"}
  /\ Slip
  /\ cache' = [cache EXCEPT ![q].state = "refused", ![q].reply = Nothing]
  /\ UNCHANGED <<officeVars, page, calls, owed, aged, presses>>

\* An answer replaces what was known, a failure keeps it.
Ended(entry) == IF entry.state = "answered"
                THEN [state |-> "done", data |-> entry.reply, reply |-> Nothing]
                ELSE [state |-> "failed", data |-> entry.data, reply |-> Nothing]

\* The interceptor lets only /auth/me fail with a 401.
Arrive(q) ==
  /\ q \in DOMAIN cache /\ cache[q].state \in InFlight \ {"asked"}
  /\ IF cache[q].state = "unauthorized" /\ q # MeQ
     THEN Reloaded(LoginPage, calls)
     ELSE /\ \E entries \in {[cache EXCEPT ![q] = Ended(@)]} : Settle(page, entries, calls, {}, owed)
          /\ UNCHANGED aged
  /\ UNCHANGED <<officeVars, presses, slips>>

\* Unused for a minute, an entry is dropped.
Forget(q) ==
  /\ q \in DOMAIN cache \ Uses(page, cache) /\ cache[q].state \in {"done", "failed"}
  /\ cache' = Without(cache, q)
  /\ UNCHANGED <<officeVars, page, calls, owed, aged, presses, slips>>

-----------------------------------------------------------------------------
(* A mutation: pressed, handled by the server, ended.                      *)

Pressing == presses < MaxPresses /\ presses' = presses + 1

Call(op, on, body, then) ==
  [op |-> op, on |-> on, body |-> body, then |-> then, from |-> "screen", stage |-> "sent",
   n |-> presses]

Send(call) ==
  /\ Pressing
  /\ Cardinality(calls) < MaxCalls
  /\ calls' = calls \cup {call}

Loading(ops) == \E c \in calls : c.from = "screen" /\ c.op \in ops

\* What the server answers; the change it made is none of this operator's.
Answer(c, on, stage) == calls' = (calls \ {c}) \cup {[c EXCEPT !.on = on, !.stage = stage]}

Refuse(c) ==
  /\ Answer(c, c.on, IF SignedIn THEN "refused" ELSE "unauthorized")
  /\ UNCHANGED <<officeVars, page, aged>>

\* What an abandoned page's call changes is, to this page, another's change.
Ages(c) == aged' = IF c.from = "gone" THEN aged \cup DOMAIN cache ELSE aged

LoseCall(c) ==
  /\ c \in calls /\ c.stage \in {"sent", "ok"}
  /\ Slip
  /\ calls' = (calls \ {c}) \cup {[c EXCEPT !.stage = "refused"]}
  /\ UNCHANGED <<officeVars, page, cache, owed, aged, presses>>

\* The call has ended; its screen turns to p and may send another at once.
Finish(c, p, more) ==
  /\ IF c.from = "gone" THEN calls' = calls \ {c} /\ UNCHANGED <<page, cache, owed, aged>>
     ELSE IF c.stage = "unauthorized" /\ c.op \notin {"login", "logout", "magicLink"}
     THEN Reloaded(LoginPage, calls \ {c})
     ELSE /\ \E next \in {p}, stale \in {owed \cup Invalidates(c.op)} :
               Settle(next, cache, calls \ {c}, more, stale)
          /\ UNCHANGED aged
  /\ UNCHANGED <<officeVars, presses, slips>>

-----------------------------------------------------------------------------
(* Others act, and the pages learn of it when they ask.                    *)

Elsewhere ==
  /\ Others /\ aged' = aged \cup DOMAIN cache
  /\ UNCHANGED <<page, cache, calls, owed, presses, slips>>

Behind == aged' = aged \cup {BroadcastsQ} /\ UNCHANGED <<page, cache, calls, owed, presses, slips>>
Announcement(k) == Announce(k) /\ Behind
Delivery(k) == Deliver(k) /\ Behind

Meanwhile == Elsewhere \/ \E k \in Key : Announcement(k) \/ Delivery(k)

\* A link or a button that only leads elsewhere.
Turn(p) ==
  /\ Pressing /\ Show(p, cache, calls)
  /\ UNCHANGED <<officeVars, owed, aged, slips>>

\* The navigation of the shell; a link to where one is changes nothing.
Visit(p) ==
  /\ Known(cache) /\ page.at # "login" /\ p.at # page.at
  /\ Turn(p)

\* A page that has loaded, or one that has only been opened; pressed and slipped
\* are what is used up of the bounds.
BrowserInit(p, o, pressed, slipped) ==
  /\ OfficeInit(o)
  /\ IF SignedIn
     THEN LET loaded == [q \in ShellQueries \cup ScreenQueries(p) |->
                           [state |-> "done", data |-> Read(q), reply |-> Nothing]]
          IN  cache = loaded /\ page = Seeded(p, loaded)
     ELSE page = p /\ cache = [q \in {MeQ} |-> Asking(Nothing)]
  /\ calls = {} /\ owed = {} /\ aged = {}
  /\ presses = pressed /\ slips = slipped

Network ==
  \/ \E q \in DOMAIN cache : Serve(q) \/ LoseQuery(q) \/ Arrive(q) \/ Forget(q)
  \/ \E c \in calls : LoseCall(c)
=============================================================================
