----------------------------- MODULE PanelProofs -----------------------------
(***************************************************************************)
(* Proofs about the admin panel, for every set of events, accounts and     *)
(* channels, every number of calls under way and every way its requests,   *)
(* answers, failures and the office behind it interleave: what its state   *)
(* may hold; that the login screen remembers nobody; that a panel at rest  *)
(* shows what the server has; and what becomes of a form and of a delete.  *)
(*                                                                         *)
(* The steps of the panel are first reduced to the few kinds that Steps    *)
(* lists; each invariant after TypesInv has one lemma for each of them.    *)
(***************************************************************************)
EXTENDS Panel, EventLogProofs, FiniteSetTheorems

Views == [id : Event, row : EventRow]
Modal == [notify : BOOLEAN, published : BOOLEAN, rest : BOOLEAN, others0 : 0..MaxOthers]

\* What the endpoint of a query answers with.
IsData(q, data) ==
  /\ q[1] = "me" => data \in Role
  /\ q[1] = "events" => data \subseteq Views
  /\ q[1] = "event" => data \in Views
  /\ q[1] = "broadcasts" => IsTable(data, Key, RowState)
  /\ q[1] = "channels" => IsTable(data, Channel, ChannelRow)
  /\ q[1] = "users" => IsTable(data, Person, Account)

IsEntry(q, x) ==
  /\ x = [state |-> x.state, data |-> x.data, reply |-> x.reply]
  /\ x.state \in InFlight \cup {"done", "failed"}
  /\ x.data # Nothing => IsData(q, x.data)
  /\ x.state = "answered" => IsData(q, x.reply)

CacheOK(c) == DOMAIN c \subseteq Query /\ \A q \in DOMAIN c : IsEntry(q, c[q])

Saving == {"create", "update", "publish", "unpublish"}

IsCall(c) ==
  /\ c = [op |-> c.op, on |-> c.on, body |-> c.body, then |-> c.then, from |-> c.from,
          stage |-> c.stage, n |-> c.n]
  /\ c.op \in EventOps \cup EntryOps \cup AvisosOps \cup TeamOps
  /\ c.from \in {"screen", "card", "left", "gone"}
  /\ c.stage \in {"sent", "ok", "refused", "unauthorized"}
  /\ c.n \in Nat
  /\ c.op \in Saving => /\ c.body \in Payload
                        /\ c.op # "create" \/ c.stage = "ok" => c.on \in Event
  /\ c.op = "delete" => c.on \in Event /\ c.body \in Modal /\ c.then = "list"
  /\ c.op = "retry" => c.on \in Key
  /\ c.op \in {"newChannel", "saveChannel"} => c.body \in ChannelRow
  /\ c.op \in {"saveChannel", "dropChannel"} => c.on \in Channel
  /\ c.op = "invite" => c.body \in [person : Person, role : Role]
  /\ c.op = "saveRole" => c.on \in Person /\ c.body \in Role
  /\ c.op = "setActive" => c.on \in Person /\ c.body \in BOOLEAN

PageOK(p) ==
  /\ p \in Page
  /\ p.at = "difusion" /\ p.editing # Nothing => p.form \in ChannelRow

ScreenOf(c, at) ==
  /\ c.op \in EventOps => at = "editor"
  /\ c.op \in AvisosOps => at = "difusion"
  /\ c.op \in TeamOps => at = "equipo"
  /\ c.op \in {"login", "magicLink"} => at = "login"
  /\ c.op = "logout" => at # "login"

\* The calls of a screen are about what it shows.
OnScreenOf(cs, at) == \A c \in cs : c.from \in {"screen", "card"} => ScreenOf(c, at)

Tag == {"Me", "Events", "Broadcasts", "Channels", "Users"}

TypesInv ==
  /\ OfficeTypeOK /\ PageOK(page) /\ CacheOK(cache)
  /\ \A c \in calls : IsCall(c)
  /\ owed \subseteq Tag /\ aged \subseteq Query
  /\ presses \in Nat /\ slips \in Nat
  /\ OnScreenOf(calls, page.at)

There(q) == q[1] = "event" => q[2] \in DOMAIN events

-----------------------------------------------------------------------------
(* Queries.                                                                *)

\* The six kinds of queries, what each begins with, and its tag.
LEMMA QueryCases ==
  \A q \in Query : \/ q = MeQ \/ q = BroadcastsQ \/ q = ChannelsQ \/ q = UsersQ
                   \/ \E m \in Months : q = EventsQ(m)
                   \/ \E e \in Event : q = EventQ(e)
<1>1. \A q \in Query : \/ q \in {MeQ, BroadcastsQ, ChannelsQ, UsersQ}
                       \/ q \in {EventsQ(m) : m \in Months}
                       \/ q \in {EventQ(e) : e \in Event}
  BY DEF Query
<1> QED
  BY <1>1

LEMMA QueryMembers ==
  /\ MeQ \in Query /\ BroadcastsQ \in Query /\ ChannelsQ \in Query /\ UsersQ \in Query
  /\ \A m \in Months : EventsQ(m) \in Query
  /\ \A e \in Event : EventQ(e) \in Query
<1>1. MeQ \in Query /\ BroadcastsQ \in Query /\ ChannelsQ \in Query /\ UsersQ \in Query
  BY DEF Query
<1>2. \A m \in Months : EventsQ(m) \in Query
  BY DEF Query
<1>3. \A e \in Event : EventQ(e) \in Query
  BY DEF Query
<1> QED
  BY <1>1, <1>2, <1>3

LEMMA QueryHeads ==
  /\ MeQ[1] = "me" /\ BroadcastsQ[1] = "broadcasts" /\ ChannelsQ[1] = "channels"
  /\ UsersQ[1] = "users"
  /\ \A m \in Months : EventsQ(m)[1] = "events" /\ EventsQ(m)[2] = m
  /\ \A e \in Event : EventQ(e)[1] = "event" /\ EventQ(e)[2] = e
  BY DEF MeQ, BroadcastsQ, ChannelsQ, UsersQ, EventsQ, EventQ

LEMMA TagsOf ==
  \A q \in Query :
    /\ q[1] = "me" <=> q = MeQ
    /\ q[1] = "event" <=> \E e \in Event : q = EventQ(e)
    /\ TagOf(q) = IF q = MeQ THEN "Me" ELSE IF q[1] = "broadcasts" THEN "Broadcasts"
                  ELSE IF q[1] = "channels" THEN "Channels" ELSE IF q[1] = "users" THEN "Users"
                  ELSE "Events"
    /\ q[1] \in {"me", "events", "event", "broadcasts", "channels", "users"}
<1>1. \A q : /\ q[1] = "me" => TagOf(q) = "Me"
             /\ q[1] = "events" => TagOf(q) = "Events"
             /\ q[1] = "event" => TagOf(q) = "Events"
             /\ q[1] = "broadcasts" => TagOf(q) = "Broadcasts"
             /\ q[1] = "channels" => TagOf(q) = "Channels"
             /\ q[1] = "users" => TagOf(q) = "Users"
  BY DEF TagOf
<1> QED
  BY <1>1, QueryCases, QueryHeads

\* What an endpoint answers with has the type of its query.
LEMMA ReadTyped ==
  ASSUME OfficeTypeOK, NEW q \in Query, There(q), q = MeQ => Self \in DOMAIN team
  PROVE  IsData(q, Read(q))
<1> USE DEF OfficeTypeOK, IsData, Read, LogTypeOK, LedgerTypeOK, IsTable
<1>1. CASE q = MeQ
  BY <1>1, QueryCases, QueryHeads DEF Account
<1>2. CASE q = BroadcastsQ
  BY <1>2, QueryCases, QueryHeads
<1>3. CASE q = ChannelsQ
  BY <1>3, QueryCases, QueryHeads
<1>4. CASE q = UsersQ
  BY <1>4, QueryCases, QueryHeads
<1>5. ASSUME NEW m \in Months, q = EventsQ(m) PROVE IsData(q, Read(q))
  BY <1>5, QueryCases, QueryHeads DEF Views, View
<1>6. ASSUME NEW e \in Event, q = EventQ(e) PROVE IsData(q, Read(q))
  BY <1>6, QueryCases, QueryHeads DEF Views, View, There
<1> QED
  BY <1>1, <1>2, <1>3, <1>4, <1>5, <1>6, QueryCases, QueryHeads

-----------------------------------------------------------------------------
(* Pages.                                                                  *)

AtLogin == [at : {"login"}, error : BOOLEAN, sent : BOOLEAN]
AtList == [at : {"list"}, month : Months, back : {Nothing} \cup [id : Event, slot : Slot]]
AtEditor ==
  [at : {"editor"}, id : {Nothing} \cup Event, form : {Nothing} \cup Form, error : BOOLEAN,
   ask : BOOLEAN, notify : BOOLEAN, fault : BOOLEAN, made : SUBSET Event, stumbled : BOOLEAN]
AtLog == [at : {"difusion"}, editing : {Nothing, New} \cup Channel, form : {Nothing} \cup ChannelRow]
AtTeam == [at : {"equipo"}, inviting : BOOLEAN, editing : UNION {[S -> Role] : S \in SUBSET Person}]

LEMMA PageKinds ==
  /\ Page = AtLogin \cup AtList \cup AtEditor \cup AtLog \cup AtTeam
  /\ \A p \in AtLogin : p.at = "login"
  /\ \A p \in AtList : p.at = "list"
  /\ \A p \in AtEditor : p.at = "editor"
  /\ \A p \in AtLog : p.at = "difusion"
  /\ \A p \in AtTeam : p.at = "equipo"
  BY DEF Page, AtLogin, AtList, AtEditor, AtLog, AtTeam

LEMMA EditingIsATable ==
  \A t : t \in UNION {[S -> Role] : S \in SUBSET Person} <=> IsTable(t, Person, Role)
<1> SUFFICES ASSUME NEW t
             PROVE  t \in UNION {[S -> Role] : S \in SUBSET Person} <=> IsTable(t, Person, Role)
  OBVIOUS
<1>1. ASSUME NEW S \in SUBSET Person, t \in [S -> Role] PROVE IsTable(t, Person, Role)
  BY <1>1 DEF IsTable
<1>2. ASSUME IsTable(t, Person, Role)
      PROVE  \E S \in SUBSET Person : t \in [S -> Role]
  BY <1>2 DEF IsTable
<1> QED
  BY <1>1, <1>2

\* The pages the screens open are pages.
LEMMA PagesTyped ==
  /\ PageOK(LoginPage) /\ PageOK(LogPage) /\ PageOK(TeamPage)
  /\ \A m \in Months : PageOK(ListPage(m, Nothing))
  /\ \A m \in Months, e \in Event, s \in Slot : PageOK(ListPage(m, [id |-> e, slot |-> s]))
  /\ \A id \in {Nothing} \cup Event, ask \in BOOLEAN : PageOK(EditorPage(id, ask))
<1>1. LoginPage \in AtLogin /\ LogPage \in AtLog
  BY DEF LoginPage, LogPage, AtLogin, AtLog
<1>2. TeamPage \in AtTeam
  <2>1. NoRows \in UNION {[S -> Role] : S \in SUBSET Person}
    BY EditingIsATable DEF IsTable, NoRows
  <2> QED
    BY <2>1 DEF TeamPage, AtTeam
<1>3. \A m \in Months : ListPage(m, Nothing) \in AtList
  BY DEF ListPage, AtList
<1>4. \A m \in Months, e \in Event, s \in Slot : ListPage(m, [id |-> e, slot |-> s]) \in AtList
  BY DEF ListPage, AtList
<1>5. \A id \in {Nothing} \cup Event, ask \in BOOLEAN : EditorPage(id, ask) \in AtEditor
  BY DEF EditorPage, AtEditor
<1>6. LogPage.editing = Nothing
  BY DEF LogPage
<1> QED
  BY <1>1, <1>2, <1>3, <1>4, <1>5, <1>6, PageKinds DEF PageOK

LEMMA FormsTyped ==
  /\ BlankForm \in Form
  /\ \A view \in Views : FromEvent(view) \in Form
  /\ \A form \in Form : Body(form) \in Payload
<1>1. BlankForm \in Form
  <2>1. (CHOOSE s \in Slot : MonthOf[s] = ThisMonth) \in Slot
    BY BrowserAssumption
  <2>2. (CHOOSE g \in Group : TRUE) \in Group
    BY BrowserAssumption
  <2> QED
    BY <2>1, <2>2 DEF BlankForm, Form
<1> QED
  BY <1>1 DEF FromEvent, Views, EventRow, Form, Body, Payload

\* What a screen finds in the cache.
LEMMA SeenTyped ==
  ASSUME NEW c, CacheOK(c), NEW q \in Query, Seen(c, q) # Nothing
  PROVE  q \in DOMAIN c /\ Seen(c, q) = c[q].data /\ IsData(q, Seen(c, q))
  BY DEF Seen, CacheOK, IsEntry

\* The gates, the cards that go and the form that is filled leave a page a page.
LEMMA RoutedTyped ==
  ASSUME NEW p, PageOK(p), NEW c
  PROVE  PageOK(Routed(p, c))
  BY PagesTyped, BrowserAssumption DEF Routed

LEMMA KeptTyped ==
  ASSUME NEW p, PageOK(p), NEW c
  PROVE  /\ PageOK(Kept(p, c)) /\ Kept(p, c).at = p.at
         /\ p.at \in {"login", "list", "editor"} => Kept(p, c) = p
<1>1. CASE ~CardsGone(p, c)
  BY <1>1 DEF Kept
<1>2. CASE CardsGone(p, c) /\ p.at = "difusion"
  BY <1>2, PagesTyped DEF Kept, LogPage
<1>3. CASE CardsGone(p, c) /\ p.at # "difusion"
  <2>1. p.at = "equipo" /\ Kept(p, c) = [p EXCEPT !.editing = NoRows]
    BY <1>3 DEF CardsGone, Kept
  <2>2. p \in AtTeam
    BY <2>1, PageKinds DEF PageOK
  <2>3. NoRows \in UNION {[S -> Role] : S \in SUBSET Person}
    BY EditingIsATable DEF IsTable, NoRows
  <2>4. Kept(p, c) \in AtTeam
    BY <2>1, <2>2, <2>3 DEF AtTeam
  <2> QED
    BY <2>1, <2>4, PageKinds DEF PageOK
<1> QED
  BY <1>1, <1>2, <1>3

LEMMA SeededTyped ==
  ASSUME NEW p, PageOK(p), NEW c, CacheOK(c)
  PROVE  /\ PageOK(Seeded(p, c)) /\ Seeded(p, c).at = p.at
         /\ p.at # "editor" => Seeded(p, c) = p
         /\ p.at = "editor" => /\ Seeded(p, c).id = p.id /\ Seeded(p, c).made = p.made
                               /\ Seeded(p, c).stumbled = p.stumbled
                               /\ p.form # Nothing => Seeded(p, c) = p
                               /\ ~Known(c) => Seeded(p, c) = p
<1>1. CASE Seeded(p, c) = p
  BY <1>1
<1>2. CASE Seeded(p, c) # p
  <2>1. /\ p.at = "editor" /\ Known(c) /\ p.form = Nothing
        /\ \/ Seeded(p, c) = [p EXCEPT !.form = BlankForm]
           \/ /\ p.id # Nothing /\ Seen(c, EventQ(p.id)) # Nothing
              /\ Seeded(p, c) = [p EXCEPT !.form = FromEvent(Seen(c, EventQ(p.id)))]
    BY <1>2 DEF Seeded
  <2>2. p \in AtEditor
    BY <2>1, PageKinds DEF PageOK
  <2>3. \E form \in Form : Seeded(p, c) = [p EXCEPT !.form = form]
    <3>1. CASE Seeded(p, c) = [p EXCEPT !.form = BlankForm]
      BY <3>1, FormsTyped
    <3>2. CASE /\ p.id # Nothing /\ Seen(c, EventQ(p.id)) # Nothing
               /\ Seeded(p, c) = [p EXCEPT !.form = FromEvent(Seen(c, EventQ(p.id)))]
      <4>1. p.id \in Event
        BY <2>2, <3>2 DEF AtEditor
      <4>2. Seen(c, EventQ(p.id)) \in Views
        BY <4>1, <3>2, SeenTyped, QueryMembers, QueryHeads DEF IsData
      <4> QED
        BY <4>2, <3>2, FormsTyped
    <3> QED
      BY <2>1, <3>1, <3>2
  <2>4. PICK form \in Form : Seeded(p, c) = [p EXCEPT !.form = form]
    BY <2>3
  <2>5. Seeded(p, c) \in AtEditor
    BY <2>2, <2>4 DEF AtEditor
  <2>6. /\ Seeded(p, c).id = p.id /\ Seeded(p, c).made = p.made
        /\ Seeded(p, c).stumbled = p.stumbled
    BY <2>2, <2>4 DEF AtEditor
  <2> QED
    BY <2>1, <2>5, <2>6, <1>2, PageKinds DEF PageOK
<1> QED
  BY <1>1, <1>2

-----------------------------------------------------------------------------
(* The cache.                                                              *)

LEMMA AskingTyped ==
  /\ \A q : IsEntry(q, Asking(Nothing))
  /\ \A q, x : IsEntry(q, x) => IsEntry(q, Asking(x.data))
  BY DEF IsEntry, Asking, InFlight

LEMMA EndedTyped ==
  \A q, x : IsEntry(q, x) /\ x.state \in InFlight \ {"asked"} => IsEntry(q, Ended(x))
  BY DEF IsEntry, Ended, InFlight

LEMMA UsesTyped ==
  ASSUME NEW p, PageOK(p)
  PROVE  /\ ScreenQueries(p) \subseteq Query /\ ShellQueries \subseteq Query
         /\ \A c : Uses(p, c) \subseteq Query /\ Mounting(p, c) \subseteq Query
         /\ \A c : Mounting(p, c) \subseteq Uses(p, c) \cup ScreenQueries(p)
         /\ \A c : MeQ \in Uses(p, c)
<1>1. ScreenQueries(p) \subseteq Query
  <2>1. CASE p \in AtLogin
    BY <2>1, PageKinds, QueryMembers DEF ScreenQueries
  <2>2. CASE p \in AtList
    BY <2>2, PageKinds, QueryMembers DEF ScreenQueries, AtList
  <2>3. CASE p \in AtEditor
    <3>1. p.at = "editor" /\ (p.id # Nothing => p.id \in Event)
      BY <2>3, PageKinds DEF AtEditor
    <3> QED
      BY <3>1, QueryMembers DEF ScreenQueries
  <2>4. CASE p \in AtLog
    BY <2>4, PageKinds, QueryMembers DEF ScreenQueries
  <2>5. CASE p \in AtTeam
    BY <2>5, PageKinds, QueryMembers DEF ScreenQueries
  <2> QED
    BY <2>1, <2>2, <2>3, <2>4, <2>5, PageKinds DEF PageOK
<1>2. ShellQueries \subseteq Query
  BY QueryMembers, BrowserAssumption DEF ShellQueries
<1>3. \A c : Uses(p, c) \subseteq Query /\ MeQ \in Uses(p, c)
  BY <1>1, <1>2, QueryMembers DEF Uses, ShellQueries
<1>4. \A c : Mounting(p, c) \subseteq Uses(p, c) \cup ScreenQueries(p)
  BY DEF Mounting
<1> QED
  BY <1>1, <1>2, <1>3, <1>4

LEMMA MountedTyped ==
  ASSUME NEW c, CacheOK(c), NEW used \in SUBSET Query
  PROVE  /\ CacheOK(Mounted(c, used)) /\ DOMAIN Mounted(c, used) = DOMAIN c \cup used
         /\ \A q \in DOMAIN c \cup used :
              \/ q \in DOMAIN c /\ Mounted(c, used)[q] = c[q]
              \/ /\ Mounted(c, used)[q] = Asking(Nothing)
                 /\ q \in used
                 /\ q \in DOMAIN c => c[q].state = "failed" /\ c[q].data = Nothing
<1>1. \A q \in DOMAIN c \cup used :
        \/ q \in DOMAIN c /\ Mounted(c, used)[q] = c[q]
        \/ /\ Mounted(c, used)[q] = Asking(Nothing)
           /\ q \in used
           /\ q \in DOMAIN c => c[q].state = "failed" /\ c[q].data = Nothing
  BY DEF Mounted
<1>2. DOMAIN Mounted(c, used) = DOMAIN c \cup used
  BY DEF Mounted
<1> QED
  BY <1>1, <1>2, AskingTyped DEF CacheOK

LEMMA RefetchedTyped ==
  ASSUME NEW c, CacheOK(c), NEW tags, NEW used
  PROVE  /\ CacheOK(Refetched(c, tags, used))
         /\ \A q : q \in DOMAIN Refetched(c, tags, used)
                   <=> q \in DOMAIN c /\ (TagOf(q) \notin tags \/ q \in used)
         /\ \A q \in DOMAIN Refetched(c, tags, used) :
              Refetched(c, tags, used)[q] = IF TagOf(q) \in tags THEN Asking(c[q].data) ELSE c[q]
<1>1. /\ \A q : q \in DOMAIN Refetched(c, tags, used)
                <=> q \in DOMAIN c /\ (TagOf(q) \notin tags \/ q \in used)
      /\ \A q \in DOMAIN Refetched(c, tags, used) :
           Refetched(c, tags, used)[q] = IF TagOf(q) \in tags THEN Asking(c[q].data) ELSE c[q]
  BY DEF Refetched
<1> QED
  BY <1>1, AskingTyped DEF CacheOK

-----------------------------------------------------------------------------
(* Calls.                                                                  *)

\* d is the call c seen from elsewhere.
SameCall(d, c) == /\ d.op = c.op /\ d.on = c.on /\ d.body = c.body /\ d.n = c.n
                  /\ d.stage = c.stage

LEMMA CallMoved ==
  ASSUME NEW c, IsCall(c), NEW from \in {"screen", "card", "left", "gone"}
  PROVE  LET d == [c EXCEPT !.from = from]
         IN  IsCall(d) /\ d.from = from /\ SameCall(d, c)
  BY DEF IsCall, SameCall

\* The calls of a screen that is gone are the calls they were.
LEMMA OrphanedTyped ==
  ASSUME NEW cs, \A c \in cs : IsCall(c), NEW from \in {"card", "left"}
  PROVE  /\ \A d \in Orphaned(cs, from) :
              /\ IsCall(d)
              /\ \E c \in cs : /\ SameCall(d, c)
                               /\ d.from = IF c.from \in {"screen", "card"} THEN from ELSE c.from
         /\ \A c \in cs : \E d \in Orphaned(cs, from) :
              /\ SameCall(d, c)
              /\ d.from = IF c.from \in {"screen", "card"} THEN from ELSE c.from
<1> DEFINE To(c) == IF c.from \in {"screen", "card"} THEN [c EXCEPT !.from = from] ELSE c
<1>1. \A c \in cs : /\ IsCall(To(c)) /\ SameCall(To(c), c)
                    /\ To(c).from = IF c.from \in {"screen", "card"} THEN from ELSE c.from
  <2> SUFFICES ASSUME NEW c \in cs
               PROVE  /\ IsCall(To(c)) /\ SameCall(To(c), c)
                      /\ To(c).from = IF c.from \in {"screen", "card"} THEN from ELSE c.from
    OBVIOUS
  <2>1. CASE c.from \in {"screen", "card"}
    BY <2>1, CallMoved
  <2>2. CASE c.from \notin {"screen", "card"}
    BY <2>2 DEF SameCall
  <2> QED
    BY <2>1, <2>2
<1>2. Orphaned(cs, from) = {To(c) : c \in cs}
  BY DEF Orphaned
<1> HIDE DEF To
<1> QED
  BY <1>1, <1>2

\* ds are the calls cs, seen from the page there is now.
Moved(ds, cs) ==
  /\ \A d \in ds : \E c \in cs : /\ SameCall(d, c) /\ (d.from = "gone" <=> c.from = "gone")
                                 /\ d.from = "screen" => d = c
  /\ \A c \in cs : \E d \in ds : SameCall(d, c) /\ (d.from = "gone" <=> c.from = "gone")
  /\ (\A c, d \in cs : c = d) => \A c, d \in ds : c = d

LEMMA OrphanedMoves ==
  ASSUME NEW cs, \A c \in cs : IsCall(c), NEW from \in {"card", "left"}
  PROVE  Moved(Orphaned(cs, from), cs)
<1>1. \A d \in Orphaned(cs, from) : \E c \in cs :
        /\ SameCall(d, c) /\ (d.from = "gone" <=> c.from = "gone")
        /\ d.from = "screen" => d = c
  BY OrphanedTyped
<1>2. ASSUME NEW c \in cs
      PROVE  \E d \in Orphaned(cs, from) : SameCall(d, c) /\ (d.from = "gone" <=> c.from = "gone")
  <2>1. PICK d \in Orphaned(cs, from) :
          /\ SameCall(d, c)
          /\ d.from = IF c.from \in {"screen", "card"} THEN from ELSE c.from
    BY OrphanedTyped
  <2>2. d.from = "gone" <=> c.from = "gone"
    BY <2>1
  <2> QED
    BY <2>1, <2>2
<1>3. (\A c, d \in cs : c = d) => \A c, d \in Orphaned(cs, from) : c = d
  BY DEF Orphaned
<1> QED
  BY <1>1, <1>2, <1>3 DEF Moved

LEMMA SameMoves == \A cs : Moved(cs, cs)
  BY DEF Moved, SameCall

(***************************************************************************)
(* What is shown next is a page with a cache, and the calls under way are  *)
(* seen from it.                                                           *)
(***************************************************************************)
LEMMA Shown ==
  ASSUME PageOK(page), NEW p, PageOK(p), NEW c, CacheOK(c),
         NEW cs, \A x \in cs : IsCall(x), OnScreenOf(cs, page.at), Show(p, c, cs)
  PROVE  /\ PageOK(page') /\ page'.at = Routed(p, c).at
         /\ page' = Seeded(Kept(Routed(p, c), c), c)
         /\ CacheOK(cache') /\ cache' = Mounted(c, Mounting(page', c))
         /\ \A x \in calls' : IsCall(x)
         /\ OnScreenOf(calls', page'.at)
         /\ Moved(calls', cs)
         /\ Here(page') # Here(page) => \A x \in calls' : x.from \notin {"screen", "card"}
         /\ Here(page') = Here(page) /\ page.at = "editor" => calls' = cs
<1>1. /\ page' = Seeded(Kept(Routed(p, c), c), c)
      /\ cache' = Mounted(c, Mounting(page', c))
      /\ calls' = IF Here(page') # Here(page) THEN Orphaned(cs, "left")
                  ELSE IF CardsGone(page', c) THEN Orphaned(cs, "card") ELSE cs
  BY DEF Show
<1>2. PageOK(page') /\ page'.at = Routed(p, c).at
  BY <1>1, RoutedTyped, KeptTyped, SeededTyped
<1>3. CacheOK(cache')
  <2> DEFINE used == Mounting(page', c)
  <2>1. used \in SUBSET Query
    BY <1>2, UsesTyped
  <2>2. cache' = Mounted(c, used)
    BY <1>1
  <2> HIDE DEF used
  <2>3. CacheOK(Mounted(c, used))
    BY <2>1, MountedTyped
  <2> QED
    BY <2>2, <2>3
<1>4. Here(page') = Here(page) => page'.at = page.at
  BY DEF Here
<1>5. CASE Here(page') # Here(page)
  <2>1. calls' = Orphaned(cs, "left")
    BY <1>1, <1>5
  <2>2. /\ \A x \in calls' : IsCall(x) /\ x.from \notin {"screen", "card"}
        /\ Moved(calls', cs)
    BY <2>1, OrphanedTyped, OrphanedMoves
  <2> QED
    BY <1>1, <1>2, <1>3, <1>5, <2>2 DEF OnScreenOf
<1>6. CASE Here(page') = Here(page) /\ CardsGone(page', c)
  <2>1. calls' = Orphaned(cs, "card")
    BY <1>1, <1>6
  <2>2. (\A x \in calls' : IsCall(x)) /\ Moved(calls', cs)
    BY <2>1, OrphanedTyped, OrphanedMoves
  <2>3. OnScreenOf(calls', page.at)
    BY <2>1, OrphanedTyped DEF OnScreenOf, ScreenOf, SameCall
  <2>4. page.at # "editor"
    BY <1>4, <1>6 DEF CardsGone
  <2> QED
    BY <1>1, <1>2, <1>3, <1>4, <1>6, <2>2, <2>3, <2>4
<1>7. CASE Here(page') = Here(page) /\ ~CardsGone(page', c)
  BY <1>1, <1>2, <1>3, <1>4, <1>7, SameMoves
<1> QED
  BY <1>5, <1>6, <1>7

(***************************************************************************)
(* Something has ended: either nothing is under way, and what is stale is  *)
(* asked again, or it waits.                                               *)
(***************************************************************************)
LEMMA Settled ==
  ASSUME NEW p, NEW c, CacheOK(c), NEW cs, NEW more, NEW tags, Settle(p, c, cs, more, tags)
  PROVE  \E fresh :
           /\ CacheOK(fresh) /\ Show(p, fresh, cs \cup more)
           /\ \/ /\ Quiet(c, Held(cs)) /\ owed' = {}
                 /\ fresh = Refetched(c, tags, Uses(page, c))
              \/ ~Quiet(c, Held(cs)) /\ owed' = tags /\ fresh = c
<1>1. PICK quiet \in {Quiet(c, Held(cs))} :
        \E fresh \in {IF quiet THEN Refetched(c, tags, Uses(page, c)) ELSE c} :
          Show(p, fresh, cs \cup more) /\ owed' = IF quiet THEN {} ELSE tags
  BY DEF Settle
<1>2. PICK fresh \in {IF quiet THEN Refetched(c, tags, Uses(page, c)) ELSE c} :
          Show(p, fresh, cs \cup more) /\ owed' = IF quiet THEN {} ELSE tags
  BY <1>1
<1>3. CASE quiet
  <2>1. fresh = Refetched(c, tags, Uses(page, c))
    BY <1>2, <1>3
  <2>2. CacheOK(Refetched(c, tags, Uses(page, c)))
    BY RefetchedTyped
  <2> QED
    BY <1>1, <1>2, <1>3, <2>1, <2>2
<1>4. CASE ~quiet
  BY <1>1, <1>2, <1>4
<1> QED
  BY <1>3, <1>4

\* A page loaded anew knows nothing, and nothing under way is its own.
LEMMA Loaded ==
  ASSUME NEW p, PageOK(p), NEW cs, \A x \in cs : IsCall(x), Reloaded(p, cs)
  PROVE  /\ page' = p /\ cache' = [q \in {MeQ} |-> Asking(Nothing)]
         /\ CacheOK(cache') /\ owed' = {} /\ aged' = {}
         /\ \A x \in calls' : /\ IsCall(x) /\ x.from = "gone"
                              /\ \E y \in cs : SameCall(x, y)
         /\ Held(calls') = {}
         /\ OnScreenOf(calls', page'.at)
         /\ (\A x, y \in cs : x = y) => \A x, y \in calls' : x = y
<1>1. /\ page' = p /\ cache' = [q \in {MeQ} |-> Asking(Nothing)]
      /\ calls' = {[x EXCEPT !.from = "gone"] : x \in cs}
      /\ owed' = {} /\ aged' = {}
  BY DEF Reloaded
<1>2. CacheOK(cache')
  BY <1>1, QueryMembers, AskingTyped DEF CacheOK
<1>3. \A x \in cs : /\ IsCall([x EXCEPT !.from = "gone"]) /\ SameCall([x EXCEPT !.from = "gone"], x)
                    /\ [x EXCEPT !.from = "gone"].from = "gone"
  BY CallMoved
<1>4. \A x \in calls' : /\ IsCall(x) /\ x.from = "gone"
                        /\ \E y \in cs : SameCall(x, y)
  BY <1>1, <1>3
<1>5. (\A x, y \in cs : x = y) => \A x, y \in calls' : x = y
  BY <1>1
<1> QED
  BY <1>1, <1>2, <1>4, <1>5 DEF Held, OnScreenOf

\* A call that ends: it is no longer this page's, or the page is loaded anew,
\* or the page settles.
LEMMA Finished ==
  ASSUME NEW c, NEW p, NEW more, Finish(c, p, more)
  PROVE  /\ UNCHANGED <<officeVars, presses, slips>>
         /\ \/ c.from = "gone" /\ calls' = calls \ {c} /\ UNCHANGED <<page, cache, owed, aged>>
            \/ c.from # "gone" /\ Reloaded(LoginPage, calls \ {c})
            \/ /\ c.from # "gone" /\ UNCHANGED aged
               /\ Settle(p, cache, calls \ {c}, more, owed \cup Invalidates(c.op))
  BY DEF Finish

LEMMA InvalidatesTags == \A op : Invalidates(op) \subseteq Tag
  BY DEF Invalidates, Tag, EVENT_TAGS

\* The types of what is shown next.
LEMMA ShownTypes ==
  ASSUME TypesInv, NEW p, PageOK(p), NEW c, CacheOK(c),
         NEW cs, \A x \in cs : IsCall(x), OnScreenOf(cs, page.at), Show(p, c, cs),
         UNCHANGED <<officeVars, aged, slips>>, presses' \in Nat, owed' \subseteq Tag
  PROVE  TypesInv'
<1>1. PageOK(page')
  BY Shown DEF TypesInv
<1>2. CacheOK(cache')
  BY Shown DEF TypesInv
<1>3. (\A x \in calls' : IsCall(x)) /\ OnScreenOf(calls', page'.at)
  BY Shown DEF TypesInv
<1>4. OfficeTypeOK'
  BY DEF TypesInv, OfficeTypeOK, LogTypeOK, LedgerTypeOK, officeVars, logVars, ledgerVars
<1>5. aged' \subseteq Query /\ slips' \in Nat
  BY DEF TypesInv
<1> QED
  BY <1>1, <1>2, <1>3, <1>4, <1>5 DEF TypesInv

LEMMA SettledTypes ==
  ASSUME TypesInv, NEW p, PageOK(p), NEW c, CacheOK(c),
         NEW cs, \A x \in cs : IsCall(x), OnScreenOf(cs, page.at), NEW more,
         \A x \in more : IsCall(x), OnScreenOf(more, page.at), NEW tags \in SUBSET Tag,
         Settle(p, c, cs, more, tags), UNCHANGED <<officeVars, aged, presses, slips>>
  PROVE  TypesInv'
<1>1. PICK fresh : CacheOK(fresh) /\ Show(p, fresh, cs \cup more) /\ owed' \in {{}, tags}
  BY Settled
<1>2. (\A x \in cs \cup more : IsCall(x)) /\ OnScreenOf(cs \cup more, page.at)
  BY DEF OnScreenOf
<1>3. presses' \in Nat /\ owed' \subseteq Tag
  BY <1>1 DEF TypesInv
<1> QED
  BY <1>1, <1>2, <1>3, ShownTypes

LEMMA LoadedTypes ==
  ASSUME TypesInv, NEW p, PageOK(p), NEW cs \in SUBSET calls, Reloaded(p, cs),
         OfficeTypeOK', presses' \in Nat, slips' \in Nat
  PROVE  TypesInv'
<1>1. \A x \in cs : IsCall(x)
  BY DEF TypesInv
<1> QED
  BY <1>1, Loaded DEF TypesInv

LEMMA FinishedTypes ==
  ASSUME TypesInv, NEW c \in calls, NEW p, PageOK(p), NEW more,
         \A x \in more : IsCall(x), OnScreenOf(more, page.at), Finish(c, p, more)
  PROVE  TypesInv'
<1>1. OfficeTypeOK'
  BY Finished DEF TypesInv, OfficeTypeOK, LogTypeOK, LedgerTypeOK, officeVars, logVars, ledgerVars
<1>2. presses' \in Nat /\ slips' \in Nat
  BY Finished DEF TypesInv
<1>3. CASE calls' = calls \ {c} /\ UNCHANGED <<page, cache, owed, aged>>
  BY <1>1, <1>2, <1>3 DEF TypesInv, OnScreenOf
<1>4. CASE Reloaded(LoginPage, calls \ {c})
  BY <1>1, <1>2, <1>4, LoadedTypes, PagesTyped
<1>5. CASE UNCHANGED aged /\ Settle(p, cache, calls \ {c}, more, owed \cup Invalidates(c.op))
  <2>1. /\ CacheOK(cache) /\ \A x \in calls \ {c} : IsCall(x)
        /\ OnScreenOf(calls \ {c}, page.at)
    BY DEF TypesInv, OnScreenOf
  <2>2. owed \cup Invalidates(c.op) \in SUBSET Tag
    BY InvalidatesTags DEF TypesInv
  <2> QED
    BY <1>5, <2>1, <2>2, Finished, SettledTypes
<1> QED
  BY <1>3, <1>4, <1>5, Finished

-----------------------------------------------------------------------------
(* What she presses.                                                       *)

\* The same screen, drawn again: a form, a switch, an error.
Drawn ==
  /\ PageOK(page') /\ page'.at = page.at
  /\ page.at \in {"login", "list"} => page' = page
  /\ page.at = "editor" => /\ page'.id = page.id /\ page'.made = page.made
                           /\ page'.stumbled = page.stumbled
                           /\ page.form = Nothing => page'.form = Nothing

Aside == UNCHANGED <<officeVars, cache, owed, aged, slips>> /\ presses' = presses + 1

Typing == Aside /\ Drawn /\ UNCHANGED calls

Shows == Known(cache) \/ FormShown \/ Editing

Sending(call) ==
  /\ Aside /\ Drawn /\ Shows
  /\ page.at = "editor" => page'.form = page.form
  /\ calls' = calls \cup {call}
  /\ IsCall(call) /\ call.from = "screen" /\ call.stage = "sent" /\ call.n = presses
  /\ ScreenOf(call, page.at)
  /\ call.op \in Saving => ~Busy
  /\ call.op = "delete" =>
       /\ call.on = page.id /\ Current # Nothing
       /\ call.body.published = Published /\ call.body.others0 = others
       /\ call.body.rest => AtRest /\ EventQ(page.id) \notin aged /\ ~Failed(cache, EventQ(page.id))

Turning(p) ==
  /\ Turn(p) /\ PageOK(p) /\ Known(cache)
  /\ page.at # "login" /\ p.at # "login"
  /\ p.at = "list" => p.back = Nothing
  /\ p.at = "editor" => p.made = {} /\ p.form = Nothing /\ page.at = "list"

\* Each field of the editor, written.
LEMMA EditorFields ==
  ASSUME page \in AtEditor
  PROVE  /\ \A form \in Form : page.form # Nothing /\ page' = [page EXCEPT !.form = form] => Drawn
         /\ \A b \in BOOLEAN : \/ page' = [page EXCEPT !.error = b]
                               \/ page' = [page EXCEPT !.ask = b]
                               \/ page' = [page EXCEPT !.notify = b]
                               \/ page' = [page EXCEPT !.fault = b]
                               => Drawn /\ page'.form = page.form
         /\ page' = [page EXCEPT !.ask = FALSE, !.notify = TRUE, !.fault = FALSE]
            => Drawn /\ page'.form = page.form
<1> USE PageKinds DEF Drawn, PageOK, AtEditor
<1>1. \A form \in Form : page.form # Nothing /\ page' = [page EXCEPT !.form = form] => Drawn
  OBVIOUS
<1>2. \A b \in BOOLEAN : page' = [page EXCEPT !.error = b] => Drawn /\ page'.form = page.form
  OBVIOUS
<1>3. \A b \in BOOLEAN : page' = [page EXCEPT !.ask = b] => Drawn /\ page'.form = page.form
  OBVIOUS
<1>4. \A b \in BOOLEAN : page' = [page EXCEPT !.notify = b] => Drawn /\ page'.form = page.form
  OBVIOUS
<1>5. \A b \in BOOLEAN : page' = [page EXCEPT !.fault = b] => Drawn /\ page'.form = page.form
  OBVIOUS
<1>6. page' = [page EXCEPT !.ask = FALSE, !.notify = TRUE, !.fault = FALSE]
        => Drawn /\ page'.form = page.form
  OBVIOUS
<1> QED
  BY <1>1, <1>2, <1>3, <1>4, <1>5, <1>6

\* What the editor is about.
LEMMA EditorKnows ==
  ASSUME TypesInv, page.at = "editor"
  PROVE  /\ page \in AtEditor
         /\ page.id # Nothing => page.id \in Event /\ EventQ(page.id) \in Query
         /\ Current # Nothing => /\ page.id \in Event /\ Current \in Views
                                 /\ Current = Seen(cache, EventQ(page.id))
         /\ Editing => page.form \in Form /\ Body(page.form) \in Payload
         /\ Published \in BOOLEAN
<1>1. page \in AtEditor
  BY PageKinds DEF TypesInv, PageOK
<1>2. page.id # Nothing => page.id \in Event /\ EventQ(page.id) \in Query
  BY <1>1, QueryMembers DEF AtEditor
<1>3. Current # Nothing => /\ page.id \in Event /\ Current \in Views
                           /\ Current = Seen(cache, EventQ(page.id))
  BY <1>2, SeenTyped, QueryHeads DEF Current, TypesInv, IsData
<1>4. Editing => page.form \in Form /\ Body(page.form) \in Payload
  BY <1>1, FormsTyped DEF AtEditor, Editing
<1>5. Published \in BOOLEAN
  BY <1>3 DEF Published, Views, EventRow
<1> QED
  BY <1>1, <1>2, <1>3, <1>4, <1>5

\* What the list shows are events.
LEMMA ListedTyped ==
  ASSUME TypesInv, NEW v \in Listed
  PROVE  page.at = "list" /\ Known(cache) /\ v.id \in Event /\ v \in Views
<1>1. ListShown /\ v \in Seen(cache, EventsQ(page.month))
  BY DEF Listed
<1>2. page \in AtList
  BY <1>1, PageKinds DEF ListShown, TypesInv, PageOK
<1>3. EventsQ(page.month) \in Query /\ EventsQ(page.month)[1] = "events"
  BY <1>2, QueryMembers, QueryHeads DEF AtList
<1>4. Seen(cache, EventsQ(page.month)) \subseteq Views
  BY <1>1, <1>3, SeenTyped DEF ListShown, TypesInv, IsData
<1> QED
  BY <1>1, <1>4 DEF ListShown, Views

LEMMA TabRowsListed == \A tab \in TabKey : TabRows(Active(tab)) \subseteq Listed
<1>1. \A tab \in TabKey : Active(tab) \in TabKey
  BY DEF Active, Chips, TabKey
<1>2. \A tab \in TabKey : TabRows(tab) \subseteq Listed
  BY DEF TabKey, TabRows, Live
<1> QED
  BY <1>1, <1>2

LEMMA Sends ==
  ASSUME TypesInv, NEW op, NEW on, NEW body, NEW then, NEW call, call = Call(op, on, body, then),
         Send(call)
  PROVE  /\ calls' = calls \cup {call} /\ presses' = presses + 1
         /\ call.op = op /\ call.on = on /\ call.body = body /\ call.then = then
         /\ call.from = "screen" /\ call.stage = "sent" /\ call.n = presses /\ call.n \in Nat
         /\ call = [op |-> call.op, on |-> call.on, body |-> call.body, then |-> call.then,
                    from |-> call.from, stage |-> call.stage, n |-> call.n]
  BY DEF Call, Send, Pressing, TypesInv

LEMMA Turns ==
  /\ TypesInv /\ (StepMonth \/ OpenRow \/ NewEvent) => \E p : Turning(p)
  /\ \A p : /\ Visit(p) /\ PageOK(p) /\ p.at \notin {"login", "editor"}
            /\ p.at = "list" => p.back = Nothing
            => Turning(p)
<1>1. ASSUME TypesInv, StepMonth PROVE \E p : Turning(p)
  <2>1. PICK m \in Months : Turn(ListPage(m, Nothing))
    BY <1>1 DEF StepMonth
  <2>2. ListPage(m, Nothing).at = "list" /\ ListPage(m, Nothing).back = Nothing
    BY DEF ListPage
  <2> QED
    BY <1>1, <2>1, <2>2, PagesTyped DEF Turning, StepMonth
<1>2. ASSUME TypesInv, OpenRow PROVE \E p : Turning(p)
  <2>0. PICK tab \in TabKey, ask \in BOOLEAN :
          \E v \in TabRows(Active(tab)) : Turn(EditorPage(v.id, ask))
    BY <1>2 DEF OpenRow
  <2>1. PICK v \in TabRows(Active(tab)) : Turn(EditorPage(v.id, ask))
    BY <2>0
  <2>2. page.at = "list" /\ Known(cache) /\ v.id \in Event
    BY <1>2, <2>1, TabRowsListed, ListedTyped
  <2>3. /\ EditorPage(v.id, ask).at = "editor" /\ EditorPage(v.id, ask).made = {}
        /\ EditorPage(v.id, ask).form = Nothing
    BY DEF EditorPage
  <2> QED
    BY <2>1, <2>2, <2>3, PagesTyped DEF Turning
<1>3. ASSUME NewEvent PROVE \E p : Turning(p)
  <2>1. /\ EditorPage(Nothing, FALSE).at = "editor" /\ EditorPage(Nothing, FALSE).made = {}
        /\ EditorPage(Nothing, FALSE).form = Nothing
    BY DEF EditorPage
  <2> QED
    BY <1>3, <2>1, PagesTyped DEF Turning, NewEvent
<1>4. \A p : /\ Visit(p) /\ PageOK(p) /\ p.at \notin {"login", "editor"}
             /\ p.at = "list" => p.back = Nothing
             => Turning(p)
  BY DEF Visit, Turning
<1> QED
  BY <1>1, <1>2, <1>3, <1>4

Closing ==
  /\ Aside /\ Drawn /\ page.at = "editor" /\ page'.form = page.form
  /\ \A c \in calls' : IsCall(c)
  /\ OnScreenOf(calls', page.at)
  /\ Moved(calls', calls)
  /\ \A c \in calls : c.op # "delete" => c \in calls'

Pressed == Typing \/ Closing \/ (\E call : Sending(call)) \/ (\E p : Turning(p))

LEMMA Saves ==
  ASSUME TypesInv, NEW then \in {"list", "publish"}, Save(then)
  PROVE  Pressed
<1>1. page.at = "editor" /\ Editing /\ ~Busy
  BY DEF Save, Editing
<1>2. page \in AtEditor /\ page.form \in Form /\ Body(page.form) \in Payload
  BY <1>1, EditorKnows
<1>3. CASE page.form.title
  <2> DEFINE call == Call(IF page.id = Nothing THEN "create" ELSE "update", page.id, Body(page.form), then)
  <2>1. Send(call) /\ page' = [page EXCEPT !.error = FALSE]
    BY <1>3 DEF Save
  <2>2. Drawn /\ page'.form = page.form
    BY <1>2, <2>1, EditorFields
  <2>3. page.id = Nothing \/ page.id \in Event
    BY <1>2 DEF AtEditor
  <2>4. IsCall(call) /\ call.op \in Saving
    BY <1>2, <2>1, <2>3, Sends DEF IsCall, EventOps, Saving
  <2>5. ScreenOf(call, page.at)
    BY <1>1, <2>4 DEF ScreenOf, Saving, EntryOps, AvisosOps, TeamOps
  <2>6. Aside /\ calls' = calls \cup {call} /\ call.from = "screen" /\ call.stage = "sent" /\ call.n = presses
    BY <2>1, Sends DEF Aside, Save
  <2> HIDE DEF call
  <2>7. call.op # "delete"
    BY <2>4 DEF Saving
  <2> QED
    BY <1>1, <2>2, <2>4, <2>5, <2>6, <2>7 DEF Pressed, Sending, Shows
<1>4. CASE ~page.form.title
  <2>1. Pressing /\ page' = [page EXCEPT !.error = TRUE] /\ UNCHANGED calls
    BY <1>4 DEF Save
  <2>2. Drawn
    BY <1>2, <2>1, EditorFields
  <2> QED
    BY <2>1, <2>2 DEF Pressed, Typing, Aside, Save, Pressing
<1> QED
  BY <1>3, <1>4

LEMMA Unpublishes ==
  ASSUME TypesInv, PressUnpublish
  PROVE  Pressed
<1>1. page.at = "editor" /\ Editing /\ ~Busy /\ Published
  BY DEF PressUnpublish, Editing
<1>2. page \in AtEditor /\ page.form \in Form /\ Body(page.form) \in Payload /\ page.id \in Event
  BY <1>1, EditorKnows DEF Published
<1> DEFINE call == Call("unpublish", page.id, Body(page.form), "list")
<1>3. Send(call) /\ page' = [page EXCEPT !.error = FALSE]
  BY DEF PressUnpublish
<1>4. Drawn /\ page'.form = page.form
  BY <1>2, <1>3, EditorFields
<1>5. IsCall(call) /\ call.op = "unpublish"
  BY <1>2, <1>3, Sends DEF IsCall, EventOps, Saving
<1>6. ScreenOf(call, page.at)
  BY <1>1, <1>5 DEF ScreenOf, EntryOps, AvisosOps, TeamOps
<1>7. Aside /\ calls' = calls \cup {call} /\ call.from = "screen" /\ call.stage = "sent" /\ call.n = presses
  BY <1>3, Sends DEF Aside, PressUnpublish
<1> HIDE DEF call
<1> QED
  BY <1>1, <1>4, <1>5, <1>6, <1>7 DEF Pressed, Sending, Shows

LEMMA Confirms ==
  ASSUME TypesInv, ConfirmDelete
  PROVE  Pressed
<1>1. page.at = "editor" /\ Editing /\ Current # Nothing /\ page.id # Nothing
  BY DEF ConfirmDelete, Asked, Editing, Current
<1>2. page \in AtEditor /\ page.id \in Event /\ Published \in BOOLEAN /\ page.notify \in BOOLEAN
  BY <1>1, EditorKnows DEF AtEditor
<1> DEFINE rest == AtRest /\ EventQ(page.id) \notin aged /\ ~Failed(cache, EventQ(page.id))
           body == [notify |-> Published /\ page.notify, published |-> Published,
                    rest |-> rest, others0 |-> others]
           call == Call("delete", page.id, body, "list")
<1>3. Send(call) /\ page' = [page EXCEPT !.fault = FALSE]
  BY DEF ConfirmDelete
<1>4. Drawn /\ page'.form = page.form
  BY <1>2, <1>3, EditorFields
<1>5. rest \in BOOLEAN
  BY DEF AtRest, Quiet, Failed
<1>6. body \in Modal /\ (body.rest => rest) /\ body.published = Published /\ body.others0 = others
  <2>1. others \in 0..MaxOthers
    BY DEF TypesInv, OfficeTypeOK
  <2> HIDE DEF rest
  <2> QED
    BY <1>2, <1>5, <2>1 DEF Modal
<1>7. call.op = "delete" /\ call.on = page.id /\ call.body = body
  BY <1>3, Sends
<1>8. IsCall(call)
  <2> HIDE DEF body
  <2> QED
    BY <1>2, <1>3, <1>6, Sends DEF IsCall, EventOps, Saving
<1>9. ScreenOf(call, page.at)
  BY <1>1, <1>7 DEF ScreenOf, EntryOps, AvisosOps, TeamOps
<1>10. Aside /\ calls' = calls \cup {call} /\ call.from = "screen" /\ call.stage = "sent" /\ call.n = presses
  BY <1>3, Sends DEF Aside, ConfirmDelete
<1> HIDE DEF call, body
<1>11. Sending(call)
  BY <1>1, <1>4, <1>6, <1>7, <1>8, <1>9, <1>10 DEF Sending, Shows, Saving
<1> QED
  BY <1>11 DEF Pressed

LEMMA Closes ==
  ASSUME TypesInv, CloseAsk
  PROVE  Pressed
<1> DEFINE To(c) == IF c.op = "delete" /\ c.from = "screen" THEN [c EXCEPT !.from = "left"] ELSE c
<1>1. /\ page.at = "editor" /\ calls' = {To(c) : c \in calls}
      /\ page' = [page EXCEPT !.ask = FALSE, !.notify = TRUE, !.fault = FALSE]
  BY DEF CloseAsk, Asked, Editing
<1>2. Drawn /\ page'.form = page.form
  BY <1>1, EditorFields, EditorKnows
<1>3. \A c \in calls : /\ IsCall(To(c)) /\ SameCall(To(c), c)
                       /\ To(c).from = "gone" <=> c.from = "gone"
                       /\ To(c).from \in {"screen", "card"} => To(c) = c
                       /\ c.op # "delete" => To(c) = c
  <2> SUFFICES ASSUME NEW c \in calls
               PROVE  /\ IsCall(To(c)) /\ SameCall(To(c), c)
                      /\ To(c).from = "gone" <=> c.from = "gone"
                      /\ To(c).from \in {"screen", "card"} => To(c) = c
                      /\ c.op # "delete" => To(c) = c
    OBVIOUS
  <2>1. IsCall(c)
    BY DEF TypesInv
  <2>2. CASE c.op = "delete" /\ c.from = "screen"
    BY <2>1, <2>2, CallMoved
  <2>3. CASE ~(c.op = "delete" /\ c.from = "screen")
    BY <2>1, <2>3 DEF SameCall
  <2> QED
    BY <2>2, <2>3
<1>4. Aside
  BY DEF CloseAsk, Quietly, Aside, Pressing
<1> HIDE DEF To
<1>5. \A c \in calls' : IsCall(c)
  BY <1>1, <1>3
<1>6. OnScreenOf(calls', page.at)
  BY <1>1, <1>3 DEF OnScreenOf, TypesInv
<1>7. Moved(calls', calls)
  BY <1>1, <1>3 DEF Moved
<1>8. \A c \in calls : c.op # "delete" => c \in calls'
  BY <1>1, <1>3
<1> QED
  BY <1>1, <1>2, <1>4, <1>5, <1>6, <1>7, <1>8 DEF Pressed, Closing

LEMMA DeskTypes ==
  ASSUME TypesInv, EditField \/ AskDelete \/ ToggleNotify
  PROVE  Pressed
<1>1. page.at = "editor" /\ page \in AtEditor /\ page.form # Nothing
  BY EditorKnows DEF EditField, AskDelete, ToggleNotify, Asked, Editing
<1>2. Aside /\ UNCHANGED calls
  BY DEF EditField, AskDelete, ToggleNotify, Quietly, Aside, Pressing
<1>3. CASE EditField
  <2>1. PICK form \in Form : page' = [page EXCEPT !.form = form]
    BY <1>3 DEF EditField
  <2> QED
    BY <1>1, <1>2, <2>1, EditorFields DEF Pressed, Typing
<1>4. CASE AskDelete
  BY <1>1, <1>2, <1>4, EditorFields DEF Pressed, Typing, AskDelete
<1>5. CASE ToggleNotify
  <2>1. page' = [page EXCEPT !.notify = ~page.notify] /\ (~page.notify) \in BOOLEAN
    BY <1>1, <1>5 DEF ToggleNotify
  <2> QED
    BY <1>1, <1>2, <2>1, EditorFields DEF Pressed, Typing
<1> QED
  BY <1>3, <1>4, <1>5

LEMMA DeskPresses ==
  ASSUME TypesInv, DeskPress
  PROVE  Pressed
<1>1. CASE StepMonth \/ OpenRow \/ NewEvent
  BY <1>1, Turns DEF Pressed
<1>2. CASE Visit(ListPage(ThisMonth, Nothing))
  <2>1. /\ PageOK(ListPage(ThisMonth, Nothing)) /\ ListPage(ThisMonth, Nothing).at = "list"
        /\ ListPage(ThisMonth, Nothing).back = Nothing
    BY PagesTyped, BrowserAssumption DEF ListPage
  <2> QED
    BY <1>2, <2>1, Turns DEF Pressed
<1>3. CASE PressSave \/ PressPublish
  BY <1>3, Saves DEF PressSave, PressPublish
<1> QED
  BY <1>1, <1>2, <1>3, DeskTypes, Closes, Confirms, Unpublishes DEF DeskPress

\* The way in and out, but for the link of the mail.
LEMMA EntryPresses ==
  ASSUME TypesInv, PressLogin \/ PressMagicLink \/ SignOut
  PROVE  Pressed
<1>1. Drawn /\ UNCHANGED page
  BY DEF Drawn, PressLogin, PressMagicLink, SignOut, TypesInv
<1>2. ASSUME NEW op \in EntryOps, NEW body, NEW then, Send(Call(op, Nothing, body, then)),
             Aside, Shows, op = "logout" <=> page.at # "login"
      PROVE  Pressed
  <2> DEFINE call == Call(op, Nothing, body, then)
  <2>1. IsCall(call) /\ call.op = op
    BY <1>2, Sends DEF IsCall, EntryOps, Saving
  <2>2. ScreenOf(call, page.at)
    BY <1>2, <2>1 DEF ScreenOf, EntryOps, EventOps, AvisosOps, TeamOps
  <2>3. calls' = calls \cup {call} /\ call.from = "screen" /\ call.stage = "sent" /\ call.n = presses
    BY <1>2, Sends
  <2>4. call.op \notin Saving /\ call.op # "delete"
    BY <2>1 DEF EntryOps, Saving
  <2> HIDE DEF call
  <2>5. Sending(call)
    BY <1>1, <1>2, <2>1, <2>2, <2>3, <2>4 DEF Sending
  <2> QED
    BY <2>5 DEF Pressed
<1>3. CASE PressLogin
  <2>1. /\ \E right \in BOOLEAN : Send(Call("login", Nothing, [right |-> right], "list"))
        /\ Aside /\ Shows /\ page.at = "login"
    BY <1>3 DEF PressLogin, Aside, Send, Pressing, Shows, FormShown
  <2> QED
    BY <1>2, <2>1 DEF EntryOps
<1>4. CASE PressMagicLink
  <2>1. Aside /\ Shows /\ page.at = "login"
    BY <1>4 DEF PressMagicLink, Aside, Send, Pressing, Shows, FormShown
  <2> QED
    BY <1>2, <1>4, <2>1 DEF EntryOps, PressMagicLink
<1>5. CASE SignOut
  <2>1. Aside /\ Shows /\ page.at # "login"
    BY <1>5 DEF SignOut, Aside, Send, Pressing, Shows
  <2> QED
    BY <1>2, <1>5, <2>1 DEF EntryOps, SignOut
<1> QED
  BY <1>3, <1>4, <1>5

LEMMA NoRowsTyped == \A Id, Rows : IsTable(NoRows, Id, Rows) /\ DOMAIN NoRows = {}
  BY DEF IsTable, NoRows

\* What the log and the card of channels show.
LEMMA LogTyped ==
  ASSUME TypesInv
  PROVE  /\ LogShown => page \in AtLog /\ page.at = "difusion" /\ Known(cache)
         /\ IsTable(Log, Key, RowState) /\ (Log # NoRows => LogShown)
         /\ IsTable(ChannelRows, Channel, ChannelRow) /\ (ChannelRows # NoRows => LogShown)
         /\ FormOpen => page.editing # Nothing /\ page.form \in ChannelRow
         /\ FormOpen /\ page.editing # New => page.editing \in Channel
<1>1. LogShown => page \in AtLog /\ page.at = "difusion" /\ Known(cache)
  BY PageKinds DEF LogShown, TypesInv, PageOK
<1>2. IsTable(Log, Key, RowState) /\ (Log # NoRows => LogShown)
  BY SeenTyped, QueryMembers, QueryHeads, NoRowsTyped DEF Log, LogShown, TypesInv, IsData
<1>3. IsTable(ChannelRows, Channel, ChannelRow) /\ (ChannelRows # NoRows => LogShown)
  BY SeenTyped, QueryMembers, QueryHeads, NoRowsTyped DEF ChannelRows, TypesInv, IsData
<1>4. FormOpen => page.editing # Nothing /\ (page.editing # New => page.editing \in Channel)
  BY <1>3, AvisosAssumption DEF FormOpen, IsTable
<1>5. FormOpen => page.form \in ChannelRow
  BY <1>1, <1>4 DEF FormOpen, TypesInv, PageOK
<1> QED
  BY <1>1, <1>2, <1>3, <1>4, <1>5

LEMMA CardTypes ==
  ASSUME TypesInv, NewChannel \/ EditChannel \/ TypeChannel \/ CancelChannel
  PROVE  Pressed
<1>1. Aside /\ UNCHANGED calls
  BY DEF NewChannel, EditChannel, TypeChannel, CancelChannel, OnCard, Aside, Pressing
<1>2. page \in AtLog /\ page.at = "difusion"
  <2>1. LogShown
    BY LogTyped, NoRowsTyped DEF NewChannel, EditChannel, TypeChannel, CancelChannel, FormOpen
  <2> QED
    BY <2>1, LogTyped
<1>3. ASSUME NEW editing \in {New} \cup Channel, NEW row \in ChannelRow,
             page' = [page EXCEPT !.editing = editing, !.form = row]
      PROVE  Drawn
  BY <1>2, <1>3, PageKinds DEF Drawn, PageOK, AtLog
<1>4. CASE NewChannel
  <2>1. BlankChannel \in ChannelRow
    BY DEF BlankChannel, ChannelRow
  <2> QED
    BY <1>1, <1>3, <1>4, <2>1 DEF NewChannel, Pressed, Typing
<1>5. CASE EditChannel
  <2>1. PICK c \in DOMAIN ChannelRows : page' = [page EXCEPT !.editing = c, !.form = ChannelRows[c]]
    BY <1>5 DEF EditChannel
  <2>2. c \in Channel /\ ChannelRows[c] \in ChannelRow
    BY LogTyped DEF IsTable
  <2> QED
    BY <1>1, <1>3, <2>1, <2>2 DEF Pressed, Typing
<1>6. CASE TypeChannel
  <2>1. PICK row \in ChannelRow : page' = [page EXCEPT !.form = row]
    BY <1>6 DEF TypeChannel
  <2>2. Drawn
    BY <1>2, <2>1, PageKinds DEF Drawn, PageOK, AtLog
  <2> QED
    BY <1>1, <2>2 DEF Pressed, Typing
<1>7. CASE CancelChannel
  <2>1. page' = [page EXCEPT !.editing = Nothing, !.form = Nothing]
    BY <1>7 DEF CancelChannel
  <2>2. Drawn
    BY <1>2, <2>1, PageKinds DEF Drawn, PageOK, AtLog
  <2> QED
    BY <1>1, <2>2 DEF Pressed, Typing
<1> QED
  BY <1>4, <1>5, <1>6, <1>7

LEMMA CardSends ==
  ASSUME TypesInv, PressRetry \/ SaveChannel \/ DropChannel
  PROVE  Pressed
<1>1. Aside /\ UNCHANGED page
  BY DEF PressRetry, SaveChannel, DropChannel, Aside, Send, Pressing
<1>2. page.at = "difusion" /\ Known(cache)
  <2>1. LogShown
    BY LogTyped, NoRowsTyped DEF PressRetry, SaveChannel, DropChannel, FormOpen, LogTab
  <2> QED
    BY <2>1, LogTyped
<1>3. Drawn
  BY <1>1 DEF Drawn, TypesInv
<1>4. ASSUME NEW op \in AvisosOps, NEW on, NEW body, Send(Call(op, on, body, Nothing)),
             op = "retry" => on \in Key,
             op \in {"newChannel", "saveChannel"} => body \in ChannelRow,
             op \in {"saveChannel", "dropChannel"} => on \in Channel
      PROVE  Pressed
  <2> DEFINE call == Call(op, on, body, Nothing)
  <2>1. IsCall(call) /\ call.op = op
    BY <1>4, Sends DEF IsCall, AvisosOps, Saving
  <2>2. ScreenOf(call, page.at)
    BY <1>2, <2>1 DEF ScreenOf, EntryOps, EventOps, AvisosOps, TeamOps
  <2>3. calls' = calls \cup {call} /\ call.from = "screen" /\ call.stage = "sent" /\ call.n = presses
    BY <1>4, Sends
  <2>4. call.op \notin Saving /\ call.op # "delete"
    BY <2>1 DEF AvisosOps, Saving
  <2> HIDE DEF call
  <2>5. Sending(call)
    BY <1>1, <1>2, <1>3, <2>1, <2>2, <2>3, <2>4 DEF Sending, Shows
  <2> QED
    BY <2>5 DEF Pressed
<1>5. CASE PressRetry
  <2>1. PICK k \in LogTab("fallos") : Send(Call("retry", k, Nothing, Nothing))
    BY <1>5 DEF PressRetry
  <2>2. k \in Key
    BY <2>1, LogTyped DEF LogTab, IsTable
  <2> QED
    BY <1>4, <2>1, <2>2 DEF AvisosOps
<1>6. CASE SaveChannel
  <2>1. FormOpen
    BY <1>6 DEF SaveChannel
  <2>2. CASE page.editing = New
    BY <1>4, <1>6, <2>1, <2>2, LogTyped DEF SaveChannel, AvisosOps
  <2>3. CASE page.editing # New
    BY <1>4, <1>6, <2>1, <2>3, LogTyped DEF SaveChannel, AvisosOps
  <2> QED
    BY <2>2, <2>3
<1>7. CASE DropChannel
  <2>1. PICK c \in DOMAIN ChannelRows : Send(Call("dropChannel", c, Nothing, Nothing))
    BY <1>7 DEF DropChannel
  <2>2. c \in Channel
    BY LogTyped DEF IsTable
  <2> QED
    BY <1>4, <2>1, <2>2 DEF AvisosOps
<1> QED
  BY <1>5, <1>6, <1>7

LEMMA AvisosPresses ==
  ASSUME TypesInv, AvisosPress
  PROVE  Pressed
<1>1. CASE Visit(LogPage)
  <2>1. PageOK(LogPage) /\ LogPage.at = "difusion"
    BY PagesTyped DEF LogPage
  <2> QED
    BY <1>1, <2>1, Turns DEF Pressed
<1> QED
  BY <1>1, CardTypes, CardSends DEF AvisosPress

\* What the team's screen shows.
LEMMA TeamTyped ==
  ASSUME TypesInv
  PROVE  /\ TeamShown => page \in AtTeam /\ page.at = "equipo" /\ Known(cache)
         /\ TeamShown => IsTable(page.editing, Person, Role)
         /\ IsTable(People, Person, Account) /\ (People # NoRows => TeamShown)
<1>1. TeamShown => page \in AtTeam /\ page.at = "equipo" /\ Known(cache)
  BY PageKinds DEF TeamShown, TypesInv, PageOK
<1>2. TeamShown => IsTable(page.editing, Person, Role)
  BY <1>1, EditingIsATable DEF AtTeam
<1>3. IsTable(People, Person, Account) /\ (People # NoRows => TeamShown)
  BY SeenTyped, QueryMembers, QueryHeads, NoRowsTyped DEF People, TeamShown, TypesInv, IsData
<1> QED
  BY <1>1, <1>2, <1>3

\* A table with a row written, or without one, is a table.
LEMMA PutTyped ==
  \A t, Id, Rows : IsTable(t, Id, Rows) =>
    /\ \A id \in Id, row \in Rows : IsTable(Put(t, id, row), Id, Rows)
    /\ \A id : IsTable(Without(t, id), Id, Rows)
    /\ \A id \in DOMAIN t, row \in Rows : IsTable([t EXCEPT ![id] = row], Id, Rows)
  BY DEF IsTable, Put, Without

LEMMA TeamCards ==
  ASSUME TypesInv, OpenInvite \/ CloseInvite \/ EditRole \/ PickRole \/ CancelRole
  PROVE  Pressed
<1>1. Aside /\ UNCHANGED calls
  BY DEF OpenInvite, CloseInvite, EditRole, PickRole, CancelRole, OnCards, Aside, Pressing
<1>2. /\ TeamShown /\ page \in AtTeam /\ page.at = "equipo"
      /\ IsTable(page.editing, Person, Role)
  BY TeamTyped DEF OpenInvite, CloseInvite, EditRole, PickRole, CancelRole
<1>3. ASSUME NEW b \in BOOLEAN, page' = [page EXCEPT !.inviting = b] PROVE Drawn
  BY <1>2, <1>3, PageKinds DEF Drawn, PageOK, AtTeam
<1>4. ASSUME NEW t, IsTable(t, Person, Role), page' = [page EXCEPT !.editing = t] PROVE Drawn
  <2>1. t \in UNION {[S -> Role] : S \in SUBSET Person}
    BY <1>4, EditingIsATable
  <2>2. page' \in AtTeam
    BY <1>2, <1>4, <2>1 DEF AtTeam
  <2> QED
    BY <1>2, <2>2, PageKinds DEF Drawn, PageOK
<1>5. CASE OpenInvite \/ CloseInvite
  BY <1>1, <1>3, <1>5 DEF OpenInvite, CloseInvite, Pressed, Typing
<1>6. CASE EditRole
  <2>1. PICK p \in DOMAIN People : page' = [page EXCEPT !.editing = Put(page.editing, p, People[p].role)]
    BY <1>6 DEF EditRole
  <2>2. p \in Person /\ People[p].role \in Role
    BY TeamTyped DEF IsTable, Account
  <2>3. IsTable(Put(page.editing, p, People[p].role), Person, Role)
    BY <1>2, <2>2, PutTyped
  <2> QED
    BY <1>1, <1>4, <2>1, <2>3 DEF Pressed, Typing
<1>7. CASE PickRole
  <2>1. PICK p \in DOMAIN page.editing, role \in Role : page' = [page EXCEPT !.editing[p] = role]
    BY <1>7 DEF PickRole
  <2>2. page' = [page EXCEPT !.editing = [page.editing EXCEPT ![p] = role]]
    BY <2>1
  <2>3. IsTable([page.editing EXCEPT ![p] = role], Person, Role)
    BY <1>2, PutTyped
  <2> QED
    BY <1>1, <1>4, <2>2, <2>3 DEF Pressed, Typing
<1>8. CASE CancelRole
  <2>1. PICK p \in DOMAIN page.editing : page' = [page EXCEPT !.editing = Without(page.editing, p)]
    BY <1>8 DEF CancelRole
  <2>2. IsTable(Without(page.editing, p), Person, Role)
    BY <1>2, PutTyped
  <2> QED
    BY <1>1, <1>4, <2>1, <2>2 DEF Pressed, Typing
<1> QED
  BY <1>5, <1>6, <1>7, <1>8

LEMMA TeamSends ==
  ASSUME TypesInv, Invite \/ SaveRole \/ ToggleActive
  PROVE  Pressed
<1>1. Aside /\ UNCHANGED page
  BY DEF Invite, SaveRole, ToggleActive, Ask, Aside, Send, Pressing
<1>2. TeamShown /\ page.at = "equipo" /\ Known(cache)
  BY TeamTyped, NoRowsTyped DEF Invite, SaveRole, ToggleActive
<1>3. Drawn
  BY <1>1 DEF Drawn, TypesInv
<1>4. ASSUME NEW op \in TeamOps, NEW on, NEW body, Send(Call(op, on, body, Nothing)),
             op = "invite" => body \in [person : Person, role : Role],
             op = "saveRole" => on \in Person /\ body \in Role,
             op = "setActive" => on \in Person /\ body \in BOOLEAN
      PROVE  Pressed
  <2> DEFINE call == Call(op, on, body, Nothing)
  <2>1. IsCall(call) /\ call.op = op
    BY <1>4, Sends DEF IsCall, TeamOps, Saving
  <2>2. ScreenOf(call, page.at)
    BY <1>2, <2>1 DEF ScreenOf, EntryOps, EventOps, AvisosOps, TeamOps
  <2>3. calls' = calls \cup {call} /\ call.from = "screen" /\ call.stage = "sent" /\ call.n = presses
    BY <1>4, Sends
  <2>4. call.op \notin Saving /\ call.op # "delete"
    BY <2>1 DEF TeamOps, Saving
  <2> HIDE DEF call
  <2>5. Sending(call)
    BY <1>1, <1>2, <1>3, <2>1, <2>2, <2>3, <2>4 DEF Sending, Shows
  <2> QED
    BY <2>5 DEF Pressed
<1>5. CASE Invite
  <2>1. PICK p \in Person, role \in Role :
          Send(Call("invite", Nothing, [person |-> p, role |-> role], Nothing))
    BY <1>5 DEF Invite
  <2> QED
    BY <1>4, <2>1 DEF TeamOps
<1>6. CASE SaveRole
  <2>1. PICK p \in DOMAIN page.editing : Send(Call("saveRole", p, page.editing[p], Nothing))
    BY <1>6 DEF SaveRole
  <2>2. p \in Person /\ page.editing[p] \in Role
    BY <1>2, TeamTyped DEF IsTable
  <2> QED
    BY <1>4, <2>1, <2>2 DEF TeamOps
<1>7. CASE ToggleActive
  <2>1. PICK p \in DOMAIN People : Send(Call("setActive", p, ~People[p].active, Nothing))
    BY <1>7 DEF ToggleActive
  <2>2. p \in Person /\ (~People[p].active) \in BOOLEAN
    BY TeamTyped DEF IsTable
  <2> QED
    BY <1>4, <2>1, <2>2 DEF TeamOps
<1> QED
  BY <1>5, <1>6, <1>7

LEMMA TeamPresses ==
  ASSUME TypesInv, TeamPress
  PROVE  Pressed
<1>1. CASE Visit(TeamPage)
  <2>1. PageOK(TeamPage) /\ TeamPage.at = "equipo"
    BY PagesTyped DEF TeamPage
  <2> QED
    BY <1>1, <2>1, Turns DEF Pressed
<1> QED
  BY <1>1, TeamCards, TeamSends DEF TeamPress

(***************************************************************************)
(* Everything she presses draws her screen again, sends a call, closes the *)
(* modal of a delete or turns to another page; but for the mail's link.    *)
(***************************************************************************)
LEMMA Presses ==
  ASSUME TypesInv, DeskPress \/ EntryPress \/ AvisosPress \/ TeamPress
  PROVE  Pressed \/ OpenLink
  BY DeskPresses, EntryPresses, AvisosPresses, TeamPresses DEF EntryPress

LEMMA PressedTypes ==
  ASSUME TypesInv, Pressed \/ OpenLink
  PROVE  TypesInv'
<1>1. Aside \/ (\E p : Turning(p)) \/ OpenLink
  BY DEF Pressed, Typing, Closing, Sending
<1>2. presses' \in Nat /\ slips' \in Nat
  BY <1>1 DEF TypesInv, Aside, Turning, Turn, Pressing, OpenLink
<1>3. UNCHANGED officeVars => OfficeTypeOK'
  BY DEF TypesInv, OfficeTypeOK, LogTypeOK, LedgerTypeOK, officeVars, logVars, ledgerVars
<1>4. CASE Typing
  BY <1>2, <1>3, <1>4 DEF Typing, Aside, Drawn, TypesInv
<1>5. CASE Closing
  BY <1>2, <1>3, <1>5 DEF Closing, Aside, Drawn, TypesInv
<1>6. ASSUME NEW call, Sending(call) PROVE TypesInv'
  BY <1>2, <1>3, <1>6 DEF Sending, Aside, Drawn, TypesInv, OnScreenOf
<1>7. ASSUME NEW p, Turning(p) PROVE TypesInv'
  <2>1. /\ PageOK(p) /\ Show(p, cache, calls) /\ UNCHANGED <<officeVars, aged, slips>>
        /\ owed' \subseteq Tag /\ CacheOK(cache) /\ \A x \in calls : IsCall(x)
        /\ OnScreenOf(calls, page.at)
    BY <1>7 DEF Turning, Turn, TypesInv
  <2> QED
    BY <1>2, <2>1, ShownTypes
<1>8. CASE OpenLink
  <2>1. PageOK(ListPage(ThisMonth, Nothing)) /\ Reloaded(ListPage(ThisMonth, Nothing), calls)
    BY <1>8, PagesTyped, BrowserAssumption DEF OpenLink
  <2>2. OfficeTypeOK'
    BY <1>8 DEF OpenLink, TypesInv, OfficeTypeOK, LogTypeOK, LedgerTypeOK, logVars, ledgerVars
  <2> QED
    BY <1>2, <2>1, <2>2, LoadedTypes
<1> QED
  BY <1>4, <1>5, <1>6, <1>7, <1>8 DEF Pressed

-----------------------------------------------------------------------------
(* The server handles a call.                                              *)

LEMMA CascadeTyped == LedgerTypeOK /\ Cascade => LedgerTypeOK'
<1> SUFFICES ASSUME LedgerTypeOK, Cascade PROVE LedgerTypeOK'
  OBVIOUS
<1>1. UNCHANGED ledgerVars \/ \E gone : Drop(gone)
  BY DEF Cascade
<1> QED
  BY <1>1 DEF LedgerTypeOK, Drop, IsTable, ledgerVars

\* What an operation of the panel leaves alone.
TablesKept(op) ==
  /\ op \notin EventOps => UNCHANGED logVars
  /\ op \notin EventOps \cup {"retry"} => UNCHANGED rows
  /\ op \notin {"newChannel", "saveChannel", "dropChannel"} => UNCHANGED channels
  /\ op \notin TeamOps => UNCHANGED team
  /\ UNCHANGED others

\* c has been handled, and d is what it is now.
Handling(c, d) ==
  /\ c \in calls /\ c.stage = "sent" /\ calls' = (calls \ {c}) \cup {d}
  /\ IsCall(d) /\ d.stage # "sent"
  /\ d.op = c.op /\ d.from = c.from /\ d.body = c.body /\ d.n = c.n
  /\ c.op \in Saving \cup {"delete"} => d.on = c.on \/ c.op = "create"
  /\ UNCHANGED <<cache, owed, presses, slips>>
  /\ \/ /\ UNCHANGED page
     \/ /\ c.op = "create" /\ c.from = "screen" /\ d.stage = "ok"
        /\ \E e \in Event : page' = [page EXCEPT !.made = @ \cup {e}]
  /\ OfficeTypeOK' /\ TablesKept(c.op)
  /\ c.op = "delete" => \A e \in DOMAIN events' : /\ e \in DOMAIN events
                                                  /\ events'[e].published = events[e].published
  /\ Ages(c) \/ UNCHANGED <<logVars, rows, channels, team, aged>>

LEMMA Answered ==
  ASSUME NEW c, IsCall(c), NEW on, NEW stage \in {"ok", "refused", "unauthorized"},
         c.op \in {"update", "publish", "unpublish", "delete"} => on = c.on,
         c.op = "create" /\ stage = "ok" => on \in Event,
         c.op \in AvisosOps \cup TeamOps => on = c.on,
         Answer(c, on, stage)
  PROVE  \E d : /\ calls' = (calls \ {c}) \cup {d} /\ IsCall(d)
                /\ d.stage = stage /\ d.op = c.op /\ d.from = c.from /\ d.body = c.body /\ d.n = c.n
                /\ d.on = on
<1>1. PICK d : d = [c EXCEPT !.on = on, !.stage = stage]
  OBVIOUS
<1>2. c = [op |-> c.op, on |-> c.on, body |-> c.body, then |-> c.then, from |-> c.from,
           stage |-> c.stage, n |-> c.n]
  BY DEF IsCall
<1>3. /\ d.stage = stage /\ d.op = c.op /\ d.from = c.from /\ d.body = c.body /\ d.n = c.n
      /\ d.on = on /\ d.then = c.then
  BY <1>1, <1>2
<1>4. d = [op |-> d.op, on |-> d.on, body |-> d.body, then |-> d.then, from |-> d.from,
           stage |-> d.stage, n |-> d.n]
  BY <1>1, <1>2
<1>5. IsCall(d)
  BY <1>3, <1>4 DEF IsCall, Saving, AvisosOps, TeamOps
<1>6. calls' = (calls \ {c}) \cup {d}
  BY <1>1 DEF Answer
<1> QED
  BY <1>3, <1>5, <1>6

LEMMA Refusals ==
  ASSUME TypesInv, NEW c \in calls, c.stage = "sent", Refuse(c),
         UNCHANGED <<cache, owed, presses, slips>>
  PROVE  \E d : Handling(c, d)
<1>1. PICK stage \in {"refused", "unauthorized"} : Answer(c, c.on, stage)
  BY DEF Refuse
<1>2. IsCall(c)
  BY DEF TypesInv
<1>3. PICK d : /\ calls' = (calls \ {c}) \cup {d} /\ IsCall(d)
               /\ d.stage = stage /\ d.op = c.op /\ d.from = c.from /\ d.body = c.body /\ d.n = c.n
               /\ d.on = c.on
  BY <1>1, <1>2, Answered
<1>4. OfficeTypeOK' /\ UNCHANGED <<page, aged, logVars, rows, channels, team, others>>
  BY DEF Refuse, TypesInv, OfficeTypeOK, LogTypeOK, LedgerTypeOK, officeVars, logVars, ledgerVars
<1>5. events' = events
  BY <1>4 DEF logVars
<1>6. Handling(c, d)
  BY <1>1, <1>3, <1>4, <1>5 DEF Handling, TablesKept
<1> QED
  BY <1>6

\* Each operation of the editor is one of the log's.
LEMMA AppliedIsLogged ==
  ASSUME NEW c, IsCall(c), c.op \in EventOps, NEW e \in Event, Apply(c, e)
  PROVE  LogNext
<1>1. c.op = "delete" => c.body.notify \in BOOLEAN
  BY DEF IsCall, Modal
<1>2. c.op # "delete" => c.body \in Payload
  BY DEF IsCall, EventOps, Saving
<1> QED
  BY <1>1, <1>2 DEF Apply, EventOps, LogNext

LEMMA EventHandled ==
  ASSUME TypesInv, NEW c, HandleEvent(c)
  PROVE  \E d : Handling(c, d)
<1>1. /\ c \in calls /\ c.stage = "sent" /\ c.op \in EventOps /\ IsCall(c)
      /\ UNCHANGED <<cache, owed, presses, slips>>
  BY DEF HandleEvent, TypesInv
<1>2. CASE SignedIn /\ Targets(c) # {}
  <2>1. PICK e \in Targets(c) :
          /\ Apply(c, e) /\ Cascade /\ Answer(c, e, "ok") /\ Ages(c)
          /\ page' = IF c.op = "create" /\ c.from = "screen"
                     THEN [page EXCEPT !.made = @ \cup {e}] ELSE page
    BY <1>2 DEF HandleEvent
  <2>2. UNCHANGED <<channels, team, session, others>>
    BY <1>2 DEF HandleEvent
  <2>3. e \in Event /\ (c.op # "create" => e = c.on)
    BY <1>1, <2>1 DEF Targets, IsCall, EventOps, Saving
  <2>4. LogTypeOK'
    BY <1>1, <2>1, <2>3, AppliedIsLogged, LogTypeStep DEF TypesInv, OfficeTypeOK
  <2>5. LedgerTypeOK'
    BY <2>1, CascadeTyped DEF TypesInv, OfficeTypeOK
  <2>6. OfficeTypeOK'
    BY <2>2, <2>4, <2>5 DEF TypesInv, OfficeTypeOK
  <2>7. PICK d : /\ calls' = (calls \ {c}) \cup {d} /\ IsCall(d)
                 /\ d.stage = "ok" /\ d.op = c.op /\ d.from = c.from /\ d.body = c.body /\ d.n = c.n
                 /\ d.on = e
    BY <1>1, <2>1, <2>3, Answered DEF EventOps, AvisosOps, TeamOps
  <2>8. c.op = "delete" => \A x \in DOMAIN events' : /\ x \in DOMAIN events
                                                     /\ events'[x].published = events[x].published
    <3>1. c.op = "delete" => DeleteEvent(e, c.body.notify)
      BY <2>1 DEF Apply
    <3>2. ASSUME DeleteEvent(e, c.body.notify), NEW x \in DOMAIN events'
          PROVE  x \in DOMAIN events /\ events'[x].published = events[x].published
      <4>1. \A y \in DOMAIN events : events[y].published \in BOOLEAN
        BY DEF TypesInv, OfficeTypeOK, LogTypeOK, IsTable, EventRow
      <4>2. Row(TRUE, TRUE, events[e]).published = TRUE
        BY DEF Row
      <4> QED
        BY <3>2, <4>1, <4>2 DEF DeleteEvent
    <3> QED
      BY <3>1, <3>2
  <2>9. Handling(c, d)
    BY <1>1, <2>1, <2>2, <2>3, <2>6, <2>7, <2>8 DEF Handling, TablesKept, TeamOps, EventOps
  <2> QED
    BY <2>9
<1>3. CASE ~(SignedIn /\ Targets(c) # {})
  BY <1>1, <1>3, Refusals DEF HandleEvent
<1> QED
  BY <1>2, <1>3

LEMMA EntryHandled ==
  ASSUME TypesInv, NEW c, HandleEntry(c)
  PROVE  \E d : Handling(c, d)
<1>1. /\ c \in calls /\ c.stage = "sent" /\ c.op \in EntryOps /\ IsCall(c)
      /\ UNCHANGED <<logVars, ledgerVars, channels, team, others, page, cache, owed, aged, presses, slips>>
      /\ session' \in BOOLEAN
      /\ \E stage \in {"ok", "refused"} : Answer(c, Nothing, stage)
  BY DEF HandleEntry, TypesInv, OfficeTypeOK
<1>2. PICK stage \in {"ok", "refused"} : Answer(c, Nothing, stage)
  BY <1>1
<1>3. PICK d : /\ calls' = (calls \ {c}) \cup {d} /\ IsCall(d)
               /\ d.stage = stage /\ d.op = c.op /\ d.from = c.from /\ d.body = c.body /\ d.n = c.n
  BY <1>1, <1>2, Answered DEF EntryOps, AvisosOps, TeamOps
<1>4. OfficeTypeOK'
  BY <1>1 DEF TypesInv, OfficeTypeOK, LogTypeOK, LedgerTypeOK, logVars, ledgerVars
<1>5. c.op \notin Saving \cup {"delete"}
  BY <1>1 DEF EntryOps, Saving
<1>6. Handling(c, d)
  BY <1>1, <1>2, <1>3, <1>4, <1>5 DEF Handling, TablesKept, ledgerVars
<1> QED
  BY <1>6

LEMMA AvisosHandled ==
  ASSUME TypesInv, NEW c, HandleAvisos(c)
  PROVE  \E d : Handling(c, d)
<1>1. /\ c \in calls /\ c.stage = "sent" /\ c.op \in AvisosOps /\ IsCall(c)
      /\ UNCHANGED <<cache, owed, presses, slips>>
  BY DEF HandleAvisos, TypesInv
<1>2. c.op \notin Saving \cup {"delete"} \cup EventOps \cup TeamOps
  BY <1>1 DEF AvisosOps, Saving, EventOps, TeamOps
<1>3. CASE SignedIn /\ AvisosApplies(c)
  <2>1. Ages(c) /\ UNCHANGED <<logVars, team, session, others, page>>
    BY <1>1, <1>3 DEF HandleAvisos, Unaged
  <2>2. /\ LedgerTypeOK' /\ IsTable(channels, Channel, ChannelRow)'
        /\ c.op # "retry" => UNCHANGED rows
        /\ c.op = "retry" => UNCHANGED channels
        /\ \E stage \in {"ok", "refused"} : Answer(c, c.on, stage)
    <3>1. CASE c.op = "retry"
      <4>1. Reset(c.on) /\ UNCHANGED channels /\ \E stage \in {"ok", "refused"} : Answer(c, c.on, stage)
        BY <1>1, <1>3, <3>1 DEF HandleAvisos, HandleRetry
      <4>2. c.on \in Key
        BY <1>1, <3>1 DEF IsCall
      <4>3. LedgerTypeOK'
        BY <4>1, <4>2 DEF Reset, LedgerTypeOK, TypesInv, OfficeTypeOK, IsTable, RowState
      <4> QED
        BY <3>1, <4>1, <4>3 DEF TypesInv, OfficeTypeOK
    <3>2. CASE c.op # "retry"
      <4>1. HandleChannel(c)
        BY <1>1, <1>3, <3>2 DEF HandleAvisos
      <4>2. UNCHANGED ledgerVars /\ Answer(c, c.on, "ok")
        BY <4>1 DEF HandleChannel
      <4>3. LedgerTypeOK' /\ UNCHANGED rows
        BY <4>2 DEF LedgerTypeOK, ledgerVars, TypesInv, OfficeTypeOK
      <4>4. /\ c.op \in {"newChannel", "saveChannel"} => c.body \in ChannelRow
            /\ c.op = "saveChannel" => c.on \in Channel
        BY <1>1 DEF IsCall
      <4>5. IsTable(channels, Channel, ChannelRow)
        BY DEF TypesInv, OfficeTypeOK
      <4>6. \/ \E id \in Channel : c.body \in ChannelRow /\ channels' = Put(channels, id, c.body)
            \/ \E id : channels' = Without(channels, id)
        BY <4>1, <4>4 DEF HandleChannel
      <4>7. IsTable(channels', Channel, ChannelRow)
        BY <4>5, <4>6, PutTyped
      <4> QED
        BY <3>2, <4>2, <4>3, <4>7
    <3> QED
      BY <3>1, <3>2
  <2>3. OfficeTypeOK'
    BY <2>1, <2>2 DEF TypesInv, OfficeTypeOK, LogTypeOK, logVars
  <2>4. PICK stage \in {"ok", "refused"} : Answer(c, c.on, stage)
    BY <2>2
  <2>5. PICK d : /\ calls' = (calls \ {c}) \cup {d} /\ IsCall(d)
                 /\ d.stage = stage /\ d.op = c.op /\ d.from = c.from /\ d.body = c.body /\ d.n = c.n
                 /\ d.on = c.on
    BY <1>1, <1>2, <2>4, Answered DEF Saving
  <2>6. TablesKept(c.op)
    BY <1>1, <1>2, <2>1, <2>2 DEF TablesKept, AvisosOps
  <2>7. Handling(c, d)
    BY <1>1, <1>2, <2>1, <2>3, <2>4, <2>5, <2>6 DEF Handling
  <2> QED
    BY <2>7
<1>4. CASE ~(SignedIn /\ AvisosApplies(c))
  BY <1>1, <1>4, Refusals DEF HandleAvisos
<1> QED
  BY <1>3, <1>4

LEMMA TeamHandled ==
  ASSUME TypesInv, NEW c, HandleTeam(c)
  PROVE  \E d : Handling(c, d)
<1>1. /\ c \in calls /\ c.stage = "sent" /\ c.op \in TeamOps /\ IsCall(c)
      /\ UNCHANGED <<cache, owed, presses, slips>>
  BY DEF HandleTeam, TypesInv
<1>2. c.op \notin Saving \cup {"delete"} \cup EventOps \cup {"retry", "newChannel", "saveChannel", "dropChannel"}
  BY <1>1 DEF TeamOps, Saving, EventOps
<1>3. CASE Manages /\ TeamApplies(c)
  <2>1. /\ team' = TeamAfter(c) /\ Answer(c, c.on, "ok") /\ Ages(c)
        /\ UNCHANGED <<logVars, ledgerVars, channels, session, others, page>>
    BY <1>1, <1>3 DEF HandleTeam
  <2>2. IsTable(team, Person, Account)
    BY DEF TypesInv, OfficeTypeOK
  <2>3. IsTable(team', Person, Account)
    <3>1. CASE c.op = "invite"
      <4>1. team' = Put(team, c.body.person, [role |-> c.body.role, active |-> TRUE])
        BY <2>1, <3>1 DEF TeamAfter
      <4>2. c.body.person \in Person /\ [role |-> c.body.role, active |-> TRUE] \in Account
        BY <1>1, <3>1 DEF IsCall, Account
      <4> QED
        BY <2>2, <4>1, <4>2, PutTyped
    <3>2. CASE c.op = "saveRole"
      <4>1. team' = [team EXCEPT ![c.on].role = c.body] /\ c.body \in Role /\ c.on \in DOMAIN team
        BY <1>1, <1>3, <2>1, <3>2 DEF TeamAfter, TeamApplies, IsCall
      <4>2. [team[c.on] EXCEPT !.role = c.body] \in Account
        BY <2>2, <4>1 DEF IsTable, Account
      <4>3. PICK account \in Account : team' = [team EXCEPT ![c.on] = account]
        BY <4>1, <4>2
      <4> QED
        BY <2>2, <4>1, <4>3 DEF IsTable
    <3>3. CASE c.op = "setActive"
      <4>1. team' = [team EXCEPT ![c.on].active = c.body] /\ c.body \in BOOLEAN /\ c.on \in DOMAIN team
        BY <1>1, <1>3, <2>1, <3>3 DEF TeamAfter, TeamApplies, IsCall
      <4>2. [team[c.on] EXCEPT !.active = c.body] \in Account
        BY <2>2, <4>1 DEF IsTable, Account
      <4>3. PICK account \in Account : team' = [team EXCEPT ![c.on] = account]
        BY <4>1, <4>2
      <4> QED
        BY <2>2, <4>1, <4>3 DEF IsTable
    <3> QED
      BY <1>1, <3>1, <3>2, <3>3 DEF TeamOps
  <2>4. OfficeTypeOK'
    BY <2>1, <2>3 DEF TypesInv, OfficeTypeOK, LogTypeOK, LedgerTypeOK, logVars, ledgerVars
  <2>5. PICK d : /\ calls' = (calls \ {c}) \cup {d} /\ IsCall(d)
                 /\ d.stage = "ok" /\ d.op = c.op /\ d.from = c.from /\ d.body = c.body /\ d.n = c.n
                 /\ d.on = c.on
    BY <1>1, <1>2, <2>1, Answered DEF Saving
  <2>6. TablesKept(c.op)
    BY <1>1, <1>2, <2>1 DEF TablesKept, ledgerVars
  <2>7. Handling(c, d)
    BY <1>1, <1>2, <2>1, <2>4, <2>5, <2>6 DEF Handling
  <2> QED
    BY <2>7
<1>4. CASE ~(Manages /\ TeamApplies(c))
  BY <1>1, <1>4, Refusals DEF HandleTeam
<1> QED
  BY <1>3, <1>4

LEMMA HandlingTypes ==
  ASSUME TypesInv, NEW c, NEW d, Handling(c, d)
  PROVE  TypesInv'
<1>1. OfficeTypeOK' /\ CacheOK(cache') /\ owed' \subseteq Tag /\ presses' \in Nat /\ slips' \in Nat
  BY DEF Handling, TypesInv
<1>2. aged' \subseteq Query
  BY DEF Handling, TypesInv, Ages, CacheOK
<1>3. \A x \in calls' : IsCall(x)
  BY DEF Handling, TypesInv
<1>4. PageOK(page') /\ page'.at = page.at
  <2>1. CASE UNCHANGED page
    BY <2>1 DEF TypesInv
  <2>2. ASSUME c.op = "create", c.from = "screen", NEW e \in Event,
               page' = [page EXCEPT !.made = @ \cup {e}]
        PROVE  PageOK(page') /\ page'.at = page.at
    <3>1. page.at = "editor"
      BY <2>2 DEF Handling, TypesInv, OnScreenOf, ScreenOf, EventOps
    <3>2. page \in AtEditor
      BY <3>1, EditorKnows
    <3>3. page' \in AtEditor
      BY <2>2, <3>2 DEF AtEditor
    <3> QED
      BY <3>1, <3>3, PageKinds DEF PageOK
  <2> QED
    BY <2>1, <2>2 DEF Handling
<1>5. OnScreenOf(calls', page'.at)
  BY <1>4 DEF Handling, TypesInv, OnScreenOf, ScreenOf
<1> QED
  BY <1>1, <1>2, <1>3, <1>4, <1>5 DEF TypesInv

-----------------------------------------------------------------------------
(* A call ends.                                                            *)

\* The page p a call turns to is the one there is, or a list.
Turned(c, p) ==
  \/ /\ p.at = page.at
     /\ page.at = "list" => p = page
     /\ page.at = "editor" => p.id = page.id /\ p.made = page.made /\ p.form = page.form
     /\ IF c.op \in Saving /\ c.from = "screen" /\ c.stage # "ok"
        THEN page.at = "editor" => p.stumbled = (page.made # {})
        ELSE page.at = "editor" => p.stumbled = page.stumbled
  \/ /\ p.at = "list" /\ (p.back = Nothing \/ MonthOf[p.back.slot] = p.month)
     /\ c.stage = "ok" /\ (c.op \in EventOps \/ c.op = "login")

\* It may be followed by another at once.
FollowedBy(c, p, more) ==
  \/ more = {} /\ (c.op \in Saving /\ c.stage = "ok" => p.at = "list")
  \/ /\ c.op \in Saving /\ c.stage = "ok" /\ p = page
     /\ \E d : /\ more = {d} /\ IsCall(d) /\ d.op = "publish" /\ d.stage = "sent"
               /\ d.from = c.from /\ d.n = c.n

Ending(c, p, more) ==
  /\ c \in calls /\ c.stage # "sent" /\ Finish(c, p, more) /\ PageOK(p)
  /\ c.op = "logout" => c.from = "gone"
  /\ Turned(c, p) /\ FollowedBy(c, p, more)

\* It may leave the page as it is, but for a save that failed.
LEMMA TurnedHere ==
  ASSUME NEW c, c.op \notin Saving \/ c.from # "screen" \/ c.stage = "ok"
  PROVE  Turned(c, page)
  BY DEF Turned

LEMMA StumbleTyped ==
  ASSUME TypesInv, NEW c \in calls, c.op \in EventOps, c.stage # "ok"
  PROVE  PageOK(Stumble(c)) /\ Turned(c, Stumble(c))
<1>1. CASE c.from # "screen"
  <2>1. Stumble(c) = page /\ PageOK(page)
    BY <1>1 DEF Stumble, TypesInv
  <2>2. Turned(c, page)
    BY <1>1, TurnedHere
  <2> QED
    BY <2>1, <2>2
<1>2. CASE c.from = "screen"
  <2>1. page \in AtEditor /\ page.at = "editor"
    BY <1>2, EditorKnows DEF TypesInv, OnScreenOf, ScreenOf
  <2>2. CASE c.op = "delete"
    <3>1. Stumble(c) = [page EXCEPT !.fault = TRUE] /\ c.op \notin Saving
      BY <1>2, <2>2 DEF Stumble, Saving
    <3>2. PICK p : p = [page EXCEPT !.fault = TRUE]
      OBVIOUS
    <3>3. p \in AtEditor /\ p.id = page.id /\ p.made = page.made /\ p.form = page.form
          /\ p.stumbled = page.stumbled
      BY <2>1, <3>2 DEF AtEditor
    <3>4. PageOK(p) /\ p.at = page.at
      BY <2>1, <3>3, PageKinds DEF PageOK
    <3>5. Turned(c, p)
      BY <2>1, <3>1, <3>3, <3>4 DEF Turned
    <3> QED
      BY <3>1, <3>2, <3>4, <3>5
  <2>3. CASE c.op # "delete"
    <3>1. /\ Stumble(c) = [page EXCEPT !.error = TRUE, !.stumbled = page.made # {}]
          /\ c.op \in Saving
      BY <1>2, <2>3 DEF Stumble, Saving, EventOps
    <3>2. PICK p : p = [page EXCEPT !.error = TRUE, !.stumbled = page.made # {}]
      OBVIOUS
    <3>3. p \in AtEditor /\ p.id = page.id /\ p.made = page.made /\ p.form = page.form
          /\ p.stumbled = (page.made # {})
      BY <2>1, <3>2 DEF AtEditor
    <3>4. PageOK(p) /\ p.at = page.at
      BY <2>1, <3>3, PageKinds DEF PageOK
    <3>5. Turned(c, p)
      BY <1>2, <2>1, <3>1, <3>3, <3>4 DEF Turned
    <3> QED
      BY <3>1, <3>2, <3>4, <3>5
  <2> QED
    BY <2>2, <2>3
<1> QED
  BY <1>1, <1>2

LEMMA BackTyped ==
  ASSUME TypesInv, NEW month \in Months, NEW back, PageOK(ListPage(month, back)),
         back = Nothing \/ MonthOf[back.slot] = month, NEW c, c.stage = "ok", c.op \in EventOps
  PROVE  /\ PageOK(BackToList(month, back)) /\ BackToList(month, back).at = "list"
         /\ Turned(c, BackToList(month, back))
<1>1. CASE page.at = "list"
  BY <1>1 DEF BackToList, TypesInv, Turned
<1>2. CASE page.at # "list"
  <2>1. /\ BackToList(month, back) = ListPage(month, back) /\ ListPage(month, back).at = "list"
        /\ ListPage(month, back).back = back /\ ListPage(month, back).month = month
    BY <1>2 DEF BackToList, ListPage
  <2> QED
    BY <2>1 DEF Turned
<1> QED
  BY <1>1, <1>2

LEMMA EventEnds ==
  ASSUME TypesInv, NEW c, FinishEvent(c)
  PROVE  \E p, more : Ending(c, p, more)
<1>1. /\ c \in calls /\ c.stage # "sent" /\ c.op \in EventOps /\ IsCall(c)
      /\ c.op # "logout"
  BY DEF FinishEvent, TypesInv, EventOps
<1>2. CASE c.stage # "ok"
  <2>1. Finish(c, Stumble(c), {})
    BY <1>2 DEF FinishEvent
  <2>2. FollowedBy(c, Stumble(c), {})
    BY <1>2 DEF FollowedBy
  <2>3. Ending(c, Stumble(c), {})
    BY <1>1, <1>2, <2>1, <2>2, StumbleTyped DEF Ending
  <2> QED
    BY <2>3
<1>3. CASE c.stage = "ok" /\ c.then = "publish"
  <2> DEFINE d == [c EXCEPT !.op = "publish", !.then = "list", !.stage = "sent"]
  <2>1. Finish(c, page, {d})
    BY <1>3 DEF FinishEvent
  <2>2. PICK x : x = d
    OBVIOUS
  <2>3. c = [op |-> c.op, on |-> c.on, body |-> c.body, then |-> c.then, from |-> c.from,
             stage |-> c.stage, n |-> c.n]
    BY <1>1 DEF IsCall
  <2>4. /\ x.op = "publish" /\ x.stage = "sent" /\ x.from = c.from /\ x.n = c.n
        /\ x.on = c.on /\ x.body = c.body
    BY <2>2, <2>3
  <2>5. x = [op |-> x.op, on |-> x.on, body |-> x.body, then |-> x.then, from |-> x.from,
             stage |-> x.stage, n |-> x.n]
    BY <2>2, <2>3
  <2>6. c.op \in Saving /\ c.on \in Event /\ c.body \in Payload
    BY <1>1, <1>3 DEF IsCall, EventOps, Saving
  <2>7. IsCall(x)
    BY <1>1, <2>4, <2>5, <2>6 DEF IsCall, EventOps, Saving
  <2>8. FollowedBy(c, page, {x})
    BY <1>3, <2>4, <2>6, <2>7 DEF FollowedBy
  <2>9. Turned(c, page)
    BY <1>3, TurnedHere
  <2>10. Ending(c, page, {x})
    BY <1>1, <2>1, <2>2, <2>8, <2>9 DEF Ending, TypesInv
  <2> QED
    BY <2>10
<1>4. CASE c.stage = "ok" /\ c.then # "publish" /\ c.op = "delete"
  <2> DEFINE p == BackToList(ThisMonth, Nothing)
  <2>1. Finish(c, p, {})
    BY <1>4 DEF FinishEvent
  <2>2. PageOK(p) /\ p.at = "list" /\ Turned(c, p)
    BY <1>1, <1>4, BackTyped, PagesTyped, BrowserAssumption
  <2>3. Ending(c, p, {})
    BY <1>1, <2>1, <2>2 DEF Ending, FollowedBy
  <2> QED
    BY <2>3
<1>5. CASE c.stage = "ok" /\ c.then # "publish" /\ c.op # "delete"
  <2> DEFINE back == [id |-> c.on, slot |-> c.body.slot]
             p == BackToList(MonthOf[c.body.slot], back)
  <2>1. Finish(c, p, {})
    BY <1>5 DEF FinishEvent
  <2>2. c.on \in Event /\ c.body \in Payload
    BY <1>1, <1>5 DEF IsCall, EventOps, Saving
  <2>3. MonthOf[c.body.slot] \in Months /\ c.body.slot \in Slot
    BY <2>2, BrowserAssumption DEF Payload
  <2>4. PageOK(ListPage(MonthOf[c.body.slot], back)) /\ back.slot = c.body.slot
    BY <2>2, <2>3, PagesTyped
  <2>5. PageOK(p) /\ p.at = "list" /\ Turned(c, p)
    <3> HIDE DEF back
    <3> QED
      BY <1>1, <1>5, <2>3, <2>4, BackTyped
  <2>6. Ending(c, p, {})
    BY <1>1, <2>1, <2>5 DEF Ending, FollowedBy
  <2> QED
    BY <2>6
<1> QED
  BY <1>2, <1>3, <1>4, <1>5

\* Signing in and out, but for the sign-out that loads the page anew.
LEMMA EntryEnds ==
  ASSUME TypesInv, NEW c, FinishEntry(c)
  PROVE  \/ \E p, more : Ending(c, p, more)
         \/ /\ c \in calls /\ c.op = "logout" /\ c.from # "gone"
            /\ Reloaded(LoginPage, calls \ {c}) /\ UNCHANGED <<officeVars, presses, slips>>
<1>1. /\ c \in calls /\ c.stage # "sent" /\ c.op \in EntryOps
      /\ c.op \notin Saving /\ c.op \notin EventOps
  BY DEF FinishEntry, Saving, EntryOps, EventOps
<1>2. CASE c.op = "logout" /\ c.from # "gone"
  BY <1>1, <1>2 DEF FinishEntry
<1>3. CASE ~(c.op = "logout" /\ c.from # "gone") /\ c.stage = "ok" /\ c.op = "login"
  <2> DEFINE p == IF page.at = "list" THEN page ELSE ListPage(ThisMonth, Nothing)
  <2>1. Finish(c, p, {})
    BY <1>3 DEF FinishEntry
  <2>2. PageOK(p) /\ Turned(c, p)
    <3>1. CASE page.at = "list"
      BY <1>1, <3>1, TurnedHere DEF TypesInv
    <3>2. CASE page.at # "list"
      <4>1. /\ ListPage(ThisMonth, Nothing).at = "list" /\ ListPage(ThisMonth, Nothing).back = Nothing
            /\ PageOK(ListPage(ThisMonth, Nothing))
        BY PagesTyped, BrowserAssumption DEF ListPage
      <4> QED
        BY <1>3, <3>2, <4>1 DEF Turned
    <3> QED
      BY <3>1, <3>2
  <2> HIDE DEF p
  <2>3. Ending(c, p, {})
    BY <1>1, <1>3, <2>1, <2>2 DEF Ending, FollowedBy
  <2> QED
    BY <2>3
<1>4. CASE ~(c.op = "logout" /\ c.from # "gone") /\ ~(c.stage = "ok" /\ c.op = "login")
  <2> DEFINE p == IF c.from # "screen" THEN page
                  ELSE [page EXCEPT !.error = c.stage # "ok",
                                    !.sent = @ \/ (c.op = "magicLink" /\ c.stage = "ok")]
  <2>1. Finish(c, p, {})
    BY <1>4 DEF FinishEntry
  <2>2. PageOK(p) /\ Turned(c, p)
    <3>1. CASE c.from # "screen"
      BY <1>1, <3>1, TurnedHere DEF TypesInv
    <3>2. CASE c.from = "screen"
      <4>1. page.at = "login"
        BY <1>1, <1>4, <3>2 DEF TypesInv, OnScreenOf, ScreenOf, EntryOps
      <4>2. page \in AtLogin
        BY <4>1, PageKinds DEF TypesInv, PageOK
      <4>3. PICK q : q = [page EXCEPT !.error = c.stage # "ok",
                                      !.sent = page.sent \/ (c.op = "magicLink" /\ c.stage = "ok")]
        OBVIOUS
      <4>4. p = q
        BY <3>2, <4>3
      <4>5. q \in AtLogin
        <5>1. PICK a, b \in BOOLEAN : q = [page EXCEPT !.error = a, !.sent = b]
          <6>1. (c.stage # "ok") \in BOOLEAN
            OBVIOUS
          <6>2. (page.sent \/ (c.op = "magicLink" /\ c.stage = "ok")) \in BOOLEAN
            OBVIOUS
          <6> QED
            BY <4>3, <6>1, <6>2
        <5> QED
          BY <4>2, <5>1 DEF AtLogin
      <4>6. PageOK(q) /\ q.at = page.at
        BY <4>1, <4>5, PageKinds DEF PageOK
      <4>7. Turned(c, q)
        BY <1>1, <4>1, <4>6 DEF Turned
      <4> QED
        BY <4>4, <4>6, <4>7
    <3> QED
      BY <3>1, <3>2
  <2> HIDE DEF p
  <2>3. Ending(c, p, {})
    BY <1>1, <1>4, <2>1, <2>2 DEF Ending, FollowedBy
  <2> QED
    BY <2>3
<1> QED
  BY <1>2, <1>3, <1>4

LEMMA AvisosEnds ==
  ASSUME TypesInv, NEW c, FinishAvisos(c)
  PROVE  \E p, more : Ending(c, p, more)
<1> DEFINE p == IF c.from = "screen" /\ c.stage = "ok" /\ c.op \in {"newChannel", "saveChannel"}
                THEN [page EXCEPT !.editing = Nothing, !.form = Nothing] ELSE page
<1>1. /\ c \in calls /\ c.stage # "sent" /\ c.op \in AvisosOps
      /\ c.op \notin Saving /\ c.op \notin EventOps /\ c.op # "logout"
  BY DEF FinishAvisos, Saving, AvisosOps, EventOps
<1>2. Finish(c, p, {})
  BY DEF FinishAvisos
<1>3. PageOK(p) /\ Turned(c, p)
  <2>1. CASE ~(c.from = "screen" /\ c.stage = "ok" /\ c.op \in {"newChannel", "saveChannel"})
    BY <1>1, <2>1, TurnedHere DEF TypesInv
  <2>2. CASE c.from = "screen" /\ c.stage = "ok" /\ c.op \in {"newChannel", "saveChannel"}
    <3>1. page.at = "difusion"
      BY <1>1, <2>2 DEF TypesInv, OnScreenOf, ScreenOf
    <3>2. page \in AtLog
      BY <3>1, PageKinds DEF TypesInv, PageOK
    <3>3. PICK q : q = [page EXCEPT !.editing = Nothing, !.form = Nothing]
      OBVIOUS
    <3>4. p = q
      BY <2>2, <3>3
    <3>5. q \in AtLog /\ q.editing = Nothing
      BY <3>2, <3>3 DEF AtLog
    <3>6. PageOK(q) /\ q.at = page.at
      BY <3>1, <3>5, PageKinds DEF PageOK
    <3>7. Turned(c, q)
      BY <1>1, <3>1, <3>6 DEF Turned
    <3> QED
      BY <3>4, <3>6, <3>7
  <2> QED
    BY <2>1, <2>2
<1> HIDE DEF p
<1>4. Ending(c, p, {})
  BY <1>1, <1>2, <1>3 DEF Ending, FollowedBy
<1> QED
  BY <1>4

LEMMA TeamEnds ==
  ASSUME TypesInv, NEW c, FinishTeam(c)
  PROVE  \E p, more : Ending(c, p, more)
<1>1. /\ c \in calls /\ c.stage # "sent" /\ c.op \in TeamOps /\ Finish(c, Saved(c), {})
      /\ c.op \notin Saving /\ c.op \notin EventOps /\ c.op # "logout"
  BY DEF FinishTeam, Saving, TeamOps, EventOps
<1>2. PageOK(Saved(c)) /\ Turned(c, Saved(c))
  <2>1. CASE Saved(c) = page
    BY <1>1, <2>1, TurnedHere DEF TypesInv
  <2>2. CASE Saved(c) # page
    <3>1. /\ c.from \in {"screen", "card"}
          /\ \/ Saved(c) = [page EXCEPT !.inviting = FALSE]
             \/ Saved(c) = [page EXCEPT !.editing = Without(page.editing, c.on)]
      BY <2>2 DEF Saved
    <3>2. page.at = "equipo"
      BY <1>1, <3>1 DEF TypesInv, OnScreenOf, ScreenOf
    <3>3. page \in AtTeam
      BY <3>2, PageKinds DEF TypesInv, PageOK
    <3>4. Without(page.editing, c.on) \in UNION {[S -> Role] : S \in SUBSET Person}
      <4>1. IsTable(page.editing, Person, Role)
        BY <3>3, EditingIsATable DEF AtTeam
      <4> QED
        BY <4>1, PutTyped, EditingIsATable
    <3>5. PICK t : t = Without(page.editing, c.on)
      OBVIOUS
    <3>6. Saved(c) \in AtTeam
      BY <3>1, <3>3, <3>4, <3>5 DEF AtTeam
    <3>7. PageOK(Saved(c)) /\ Saved(c).at = page.at
      BY <3>2, <3>6, PageKinds DEF PageOK
    <3> QED
      BY <1>1, <3>2, <3>7 DEF Turned
  <2> QED
    BY <2>1, <2>2
<1>3. Ending(c, Saved(c), {})
  BY <1>1, <1>2 DEF Ending, FollowedBy
<1> QED
  BY <1>3

LEMMA EndingTypes ==
  ASSUME TypesInv, NEW c, NEW p, NEW more, Ending(c, p, more)
  PROVE  TypesInv'
<1>1. (\A x \in more : IsCall(x)) /\ OnScreenOf(more, page.at)
  BY DEF Ending, FollowedBy, TypesInv, OnScreenOf, ScreenOf, Saving, EventOps, AvisosOps, TeamOps
<1> QED
  BY <1>1, FinishedTypes DEF Ending

-----------------------------------------------------------------------------
(* Queries, and what others do.                                            *)

LEMMA OfficeKept == OfficeTypeOK /\ UNCHANGED officeVars => OfficeTypeOK'
  BY DEF OfficeTypeOK, LogTypeOK, LedgerTypeOK, officeVars, logVars, ledgerVars

LEMMA ServeTypes ==
  ASSUME TypesInv, NEW q, Serve(q) \/ LoseQuery(q)
  PROVE  TypesInv'
<1>1. q \in Query /\ q \in DOMAIN cache /\ IsEntry(q, cache[q])
  BY DEF Serve, LoseQuery, TypesInv, CacheOK
<1>2. \E state \in InFlight \ {"asked"} : \E reply :
        /\ cache' = [cache EXCEPT ![q].state = state, ![q].reply = reply]
        /\ state = "answered" => IsData(q, reply)
  <2>1. CASE LoseQuery(q)
    <3>1. cache' = [cache EXCEPT ![q].state = "refused", ![q].reply = Nothing]
      BY <2>1 DEF LoseQuery
    <3>2. "refused" \in InFlight \ {"asked"} /\ "refused" # "answered"
      BY DEF InFlight
    <3> QED
      BY <3>1, <3>2
  <2>2. CASE Serve(q) /\ SignedIn /\ Allowed(q)
    <3>1. IsData(q, Read(q))
      BY <1>1, <2>2, ReadTyped DEF TypesInv, Allowed, SignedIn, There
    <3>2. cache' = [cache EXCEPT ![q].state = "answered", ![q].reply = Read(q)]
      BY <2>2 DEF Serve
    <3> QED
      BY <3>1, <3>2 DEF InFlight
  <2>3. CASE Serve(q) /\ ~(SignedIn /\ Allowed(q))
    <3>1. PICK state \in {"refused", "unauthorized"} :
            cache' = [cache EXCEPT ![q].state = state, ![q].reply = Nothing]
      BY <2>3 DEF Serve
    <3>2. state \in InFlight \ {"asked"} /\ state # "answered"
      BY DEF InFlight
    <3> QED
      BY <3>1, <3>2
  <2> QED
    BY <2>1, <2>2, <2>3
<1>2a. PICK state \in InFlight \ {"asked"} : \E reply :
         /\ cache' = [cache EXCEPT ![q].state = state, ![q].reply = reply]
         /\ state = "answered" => IsData(q, reply)
  BY <1>2
<1>3. PICK reply :
        /\ cache' = [cache EXCEPT ![q].state = state, ![q].reply = reply]
        /\ state = "answered" => IsData(q, reply)
  BY <1>2a
<1>4. CacheOK(cache')
  <2>1. DOMAIN cache' = DOMAIN cache /\ \A r \in DOMAIN cache \ {q} : cache'[r] = cache[r]
    BY <1>3
  <2>2. PICK x : x = [state |-> state, data |-> cache[q].data, reply |-> reply]
    OBVIOUS
  <2>3. cache'[q] = x
    BY <1>1, <1>3, <2>2 DEF IsEntry
  <2>4. IsEntry(q, x)
    BY <1>1, <1>3, <2>2 DEF IsEntry
  <2> QED
    BY <2>1, <2>3, <2>4 DEF CacheOK, TypesInv
<1>5. /\ UNCHANGED <<officeVars, page, calls, owed, presses>>
      /\ aged' \subseteq aged /\ slips' \in Nat
  BY DEF Serve, LoseQuery, Slip, TypesInv
<1> QED
  BY <1>4, <1>5, OfficeKept DEF TypesInv, OnScreenOf

LEMMA ArriveTypes ==
  ASSUME TypesInv, NEW q, Arrive(q)
  PROVE  TypesInv'
<1>1. /\ q \in DOMAIN cache /\ q \in Query /\ cache[q].state \in InFlight \ {"asked"}
      /\ IsEntry(q, cache[q]) /\ UNCHANGED <<officeVars, presses, slips>>
  BY DEF Arrive, TypesInv, CacheOK
<1>2. CASE Reloaded(LoginPage, calls)
  BY <1>1, <1>2, LoadedTypes, PagesTyped, OfficeKept DEF TypesInv
<1>3. ASSUME NEW entries \in {[cache EXCEPT ![q] = Ended(@)]},
             Settle(page, entries, calls, {}, owed), UNCHANGED aged
      PROVE  TypesInv'
  <2>1. entries = [cache EXCEPT ![q] = Ended(cache[q])]
    OBVIOUS
  <2>2. IsEntry(q, Ended(cache[q]))
    BY <1>1, EndedTyped
  <2>3. CacheOK(entries)
    BY <2>1, <2>2 DEF CacheOK, TypesInv
  <2>4. /\ PageOK(page) /\ (\A x \in calls : IsCall(x)) /\ OnScreenOf(calls, page.at)
        /\ owed \in SUBSET Tag /\ OnScreenOf({}, page.at)
    BY DEF TypesInv, OnScreenOf
  <2> QED
    BY <1>1, <1>3, <2>3, <2>4, SettledTypes
<1> QED
  BY <1>2, <1>3 DEF Arrive

LEMMA ForgetTypes ==
  ASSUME TypesInv, (\E q : Forget(q)) \/ Poll
  PROVE  TypesInv'
<1>1. UNCHANGED <<officeVars, page, calls, owed, aged, presses, slips>>
  BY DEF Forget, Poll
<1>2. CacheOK(cache')
  <2>1. ASSUME NEW q, cache' = Without(cache, q) PROVE CacheOK(cache')
    BY <2>1 DEF Without, CacheOK, TypesInv
  <2>2. CASE Poll
    <3>1. cache' = [cache EXCEPT ![BroadcastsQ] = Asking(cache[BroadcastsQ].data)]
      BY <2>2 DEF Poll
    <3> QED
      BY <3>1, AskingTyped DEF CacheOK, TypesInv
  <2> QED
    BY <2>1, <2>2 DEF Forget
<1> QED
  BY <1>1, <1>2, OfficeKept DEF TypesInv, OnScreenOf

\* A call the network loses is one that failed, whatever the server made of it.
LEMMA LosesCall ==
  ASSUME TypesInv, NEW c, LoseCall(c)
  PROVE  \E d : /\ c \in calls /\ calls' = (calls \ {c}) \cup {d} /\ IsCall(d)
                /\ d.stage = "refused" /\ d.op = c.op /\ d.from = c.from /\ d.body = c.body
                /\ d.n = c.n /\ d.on = c.on
                /\ UNCHANGED <<officeVars, page, cache, owed, aged, presses>> /\ slips' \in Nat
<1>1. c \in calls /\ IsCall(c) /\ calls' = (calls \ {c}) \cup {[c EXCEPT !.stage = "refused"]}
  BY DEF LoseCall, TypesInv
<1>2. PICK d : d = [c EXCEPT !.stage = "refused"]
  OBVIOUS
<1>3. /\ d.stage = "refused" /\ d.op = c.op /\ d.from = c.from /\ d.body = c.body
      /\ d.n = c.n /\ d.on = c.on /\ IsCall(d)
  BY <1>1, <1>2 DEF IsCall
<1>4. UNCHANGED <<officeVars, page, cache, owed, aged, presses>> /\ slips' \in Nat
  BY DEF LoseCall, Slip, TypesInv
<1> QED
  BY <1>1, <1>2, <1>3, <1>4

LEMMA LoseCallTypes ==
  ASSUME TypesInv, NEW c, LoseCall(c)
  PROVE  TypesInv'
<1>1. PICK d : /\ c \in calls /\ calls' = (calls \ {c}) \cup {d} /\ IsCall(d)
               /\ d.op = c.op /\ d.from = c.from
               /\ UNCHANGED <<officeVars, page, cache, owed, aged, presses>> /\ slips' \in Nat
  BY LosesCall
<1> QED
  BY <1>1, OfficeKept DEF TypesInv, OnScreenOf, ScreenOf

\* What happens without the browser.
LEMMA MeanwhileTypes ==
  ASSUME TypesInv, Meanwhile
  PROVE  TypesInv'
<1>1. UNCHANGED <<page, cache, calls, owed, presses, slips>> /\ aged' \subseteq Query
  BY QueryMembers DEF Meanwhile, Elsewhere, Announcement, Delivery, Behind, TypesInv, CacheOK
<1>2. OfficeTypeOK'
  <2> USE DEF TypesInv
  <2>1. ASSUME NEW k \in Key, Announce(k) \/ Deliver(k) PROVE OfficeTypeOK'
    <3>1. UNCHANGED <<logVars, channels, team, session, others>>
      BY <2>1 DEF Announce, Deliver
    <3>2. LedgerTypeOK'
      <4>1. "queued" \in RowState
        BY DEF RowState
      <4>2. Record(k) \/ \E state \in RowState : Attempt(k, state)
        BY <2>1 DEF Announce, Deliver
      <4> QED
        BY <4>1, <4>2, PutTyped DEF Record, Attempt, LedgerTypeOK, OfficeTypeOK
    <3> QED
      BY <3>1, <3>2 DEF OfficeTypeOK, LogTypeOK, logVars
  <2>2. CASE Others
    <3>1. others' \in 0..MaxOthers
      BY <2>2, OfficeAssumption DEF Others, OfficeTypeOK
    <3>2. CASE OthersEvents
      <4>1. LogTypeOK' /\ LedgerTypeOK'
        BY <3>2, LogTypeStep, CascadeTyped DEF OthersEvents, OfficeTypeOK
      <4> QED
        BY <3>1, <3>2, <4>1 DEF OthersEvents, OfficeTypeOK
    <3>3. CASE OthersChannels
      <4>1. IsTable(channels', Channel, ChannelRow)
        BY <3>3, PutTyped DEF OthersChannels, OfficeTypeOK
      <4> QED
        BY <3>1, <3>3, <4>1 DEF OthersChannels, OfficeTypeOK, LogTypeOK, LedgerTypeOK, logVars, ledgerVars
    <3>4. CASE OthersTeam
      <4>1. IsTable(team', Person, Account)
        BY <3>4, PutTyped DEF OthersTeam, OfficeTypeOK
      <4> QED
        BY <3>1, <3>4, <4>1 DEF OthersTeam, OfficeTypeOK, LogTypeOK, LedgerTypeOK, logVars, ledgerVars
    <3>5. CASE SessionEnds
      BY <3>1, <3>5 DEF SessionEnds, OfficeTypeOK, LogTypeOK, LedgerTypeOK, logVars, ledgerVars
    <3> QED
      BY <2>2, <3>2, <3>3, <3>4, <3>5 DEF Others
  <2> QED
    BY <2>1, <2>2 DEF Meanwhile, Elsewhere, Announcement, Delivery
<1> QED
  BY <1>1, <1>2 DEF TypesInv, OnScreenOf

-----------------------------------------------------------------------------
(* The beginning.                                                          *)

\* A page that has loaded: each of its queries holds what the server has.
LEMMA FirstLoad ==
  ASSUME PanelInit
  PROVE  /\ OfficeTypeOK /\ calls = {} /\ owed = {} /\ aged = {}
         /\ presses \in Nat /\ slips \in Nat
         /\ deleted = {}
         /\ \E p : /\ PageOK(p) /\ Fresh(p)
                   /\ \/ /\ SignedIn /\ p.at # "login" /\ page = Seeded(p, cache) /\ CacheOK(cache)
                         /\ MeQ \in DOMAIN cache
                         /\ \A q \in DOMAIN cache :
                              cache[q] = [state |-> "done", data |-> Read(q), reply |-> Nothing]
                      \/ /\ page = p /\ cache = [q \in {MeQ} |-> Asking(Nothing)]
                         /\ p.at = "editor" => p.form = Nothing
<1>1. PICK o \in Opening : BrowserInit(o.page, o.office, MaxPresses - o.presses, MaxSlips - o.slips)
  BY DEF PanelInit
<1> DEFINE p == o.page
<1>2. /\ Fresh(p) /\ IsOffice(o.office)
      /\ o.presses \in 0..MaxPresses /\ o.slips \in 0..MaxSlips
      /\ IF o.office.session /\ Self \in DOMAIN o.office.team /\ o.office.team[Self].active
         THEN Loadable(p, o.office)
         ELSE p.at = "editor" => p.form = Nothing
  BY OpeningAssumption
<1>3. OfficeInit(o.office) /\ calls = {} /\ owed = {} /\ aged = {}
  BY <1>1 DEF BrowserInit
<1>4. presses \in Nat /\ slips \in Nat
  <2>1. presses = MaxPresses - o.presses /\ slips = MaxSlips - o.slips
    BY <1>1 DEF BrowserInit
  <2> QED
    BY <1>2, <2>1, BrowserAssumption
<1>5. /\ events = o.office.events /\ deleted = {} /\ outbox = o.office.outbox
      /\ rows = o.office.rows /\ loose = {} /\ channels = o.office.channels
      /\ team = o.office.team /\ session = o.office.session /\ others = o.office.others
  BY <1>3 DEF OfficeInit
<1>6. OfficeTypeOK
  BY <1>2, <1>5 DEF OfficeTypeOK, IsOffice, LogTypeOK, LedgerTypeOK
<1>7. PageOK(p)
  BY <1>2 DEF Fresh, PageOK
<1>8. CASE SignedIn
  <2> DEFINE loaded == [q \in ShellQueries \cup ScreenQueries(p) |->
                          [state |-> "done", data |-> Read(q), reply |-> Nothing]]
  <2>1. cache = loaded /\ page = Seeded(p, loaded)
    BY <1>1, <1>8 DEF BrowserInit
  <2>2. /\ p.at # "login"
        /\ p.at = "editor" => p.id \in {Nothing} \cup DOMAIN events
    BY <1>2, <1>5, <1>8 DEF SignedIn, Loadable
  <2>3. /\ ShellQueries \cup ScreenQueries(p) \subseteq Query
        /\ MeQ \in ShellQueries
    BY <1>7, UsesTyped DEF ShellQueries
  <2>4. \A q \in ShellQueries \cup ScreenQueries(p) : There(q)
    <3> SUFFICES ASSUME NEW q \in ShellQueries \cup ScreenQueries(p), q[1] = "event"
                 PROVE  q[2] \in DOMAIN events
      BY DEF There
    <3>1. p.at \in {"list", "editor", "difusion", "equipo"}
      BY <1>7, <2>2, PageKinds DEF PageOK
    <3>2. p.at = "editor" /\ p.id # Nothing /\ q = EventQ(p.id)
      BY <3>1, QueryHeads DEF ShellQueries, ScreenQueries, MeQ, EventsQ, BroadcastsQ, ChannelsQ, UsersQ
    <3> QED
      BY <2>2, <3>2 DEF EventQ
  <2>5. \A q \in ShellQueries \cup ScreenQueries(p) : IsData(q, Read(q))
    BY <1>6, <1>8, <2>3, <2>4, ReadTyped DEF SignedIn
  <2>6. CacheOK(loaded)
    BY <2>3, <2>5 DEF CacheOK, IsEntry, InFlight
  <2>7. MeQ \in DOMAIN loaded
        /\ \A q \in DOMAIN loaded : loaded[q] = [state |-> "done", data |-> Read(q), reply |-> Nothing]
    BY <2>3
  <2> HIDE DEF loaded, p
  <2> QED
    BY <1>2, <1>3, <1>4, <1>5, <1>6, <1>7, <1>8, <2>1, <2>2, <2>6, <2>7
<1>9. CASE ~SignedIn
  <2>1. page = p /\ cache = [q \in {MeQ} |-> Asking(Nothing)]
    BY <1>1, <1>9 DEF BrowserInit
  <2>2. p.at = "editor" => p.form = Nothing
    BY <1>2, <1>5, <1>9 DEF SignedIn
  <2> HIDE DEF p
  <2> QED
    BY <1>2, <1>3, <1>4, <1>5, <1>6, <1>7, <2>1, <2>2
<1> QED
  BY <1>8, <1>9

LEMMA InitTypes == PanelInit => TypesInv
<1> SUFFICES ASSUME PanelInit PROVE TypesInv
  OBVIOUS
<1>1. PICK p : /\ PageOK(p) /\ Fresh(p)
               /\ \/ page = Seeded(p, cache) /\ CacheOK(cache)
                  \/ page = p /\ cache = [q \in {MeQ} |-> Asking(Nothing)]
  BY FirstLoad
<1>2. CacheOK([q \in {MeQ} |-> Asking(Nothing)])
  BY QueryMembers, AskingTyped DEF CacheOK
<1>3. PageOK(page) /\ CacheOK(cache)
  BY <1>1, <1>2, SeededTyped
<1> QED
  BY <1>3, FirstLoad DEF TypesInv, OnScreenOf

(***************************************************************************)
(* Every step of the panel is one of these.                                *)
(***************************************************************************)
SignsOut(c) ==
  /\ c \in calls /\ c.op = "logout" /\ c.from # "gone"
  /\ Reloaded(LoginPage, calls \ {c}) /\ UNCHANGED <<officeVars, presses, slips>>

LEMMA Steps ==
  ASSUME TypesInv, PanelNext
  PROVE  \/ Pressed \/ OpenLink
         \/ \E q : Serve(q) \/ LoseQuery(q)
         \/ \E q : Arrive(q)
         \/ (\E q : Forget(q)) \/ Poll
         \/ \E c : LoseCall(c)
         \/ \E c, d : Handling(c, d)
         \/ \E c, p, more : Ending(c, p, more)
         \/ \E c : SignsOut(c)
         \/ Meanwhile
<1>1. CASE DeskPress \/ EntryPress \/ AvisosPress \/ TeamPress
  BY <1>1, Presses
<1>2. CASE Network
  BY <1>2 DEF Network
<1>3. CASE DeskStep
  BY <1>3, EventHandled, EventEnds DEF DeskStep
<1>4. CASE EntryStep
  BY <1>4, EntryHandled, EntryEnds DEF EntryStep, SignsOut
<1>5. CASE AvisosStep
  BY <1>5, AvisosHandled, AvisosEnds DEF AvisosStep
<1>6. CASE TeamStep
  BY <1>6, TeamHandled, TeamEnds DEF TeamStep
<1> QED
  BY <1>1, <1>2, <1>3, <1>4, <1>5, <1>6 DEF PanelNext

LEMMA SignsOutTypes ==
  ASSUME TypesInv, NEW c, SignsOut(c)
  PROVE  TypesInv'
<1>1. OfficeTypeOK' /\ presses' \in Nat /\ slips' \in Nat
  BY OfficeKept DEF SignsOut, TypesInv
<1> QED
  BY <1>1, LoadedTypes, PagesTyped DEF SignsOut

LEMMA TypesStep ==
  ASSUME TypesInv, [PanelNext]_panelVars
  PROVE  TypesInv'
<1>1. CASE UNCHANGED panelVars
  BY <1>1, OfficeKept DEF panelVars, pageVars, TypesInv, OnScreenOf
<1>2. CASE PanelNext
  BY <1>2, Steps, PressedTypes, ServeTypes, ArriveTypes, ForgetTypes, LoseCallTypes, HandlingTypes,
     EndingTypes, SignsOutTypes, MeanwhileTypes
<1> QED
  BY <1>1, <1>2

LEMMA TypesMean == TypesInv => PanelTypeOK
<1> SUFFICES ASSUME TypesInv PROVE PanelTypeOK
  OBVIOUS
<1>1. DOMAIN cache \subseteq Query /\ \A q \in DOMAIN cache : cache[q].state \in InFlight \cup {"done", "failed"}
  BY DEF TypesInv, CacheOK, IsEntry
<1>2. \A c \in calls : /\ c.op \in EventOps \cup EntryOps \cup AvisosOps \cup TeamOps
                       /\ c.from \in {"screen", "card", "left", "gone"}
                       /\ c.stage \in {"sent", "ok", "refused", "unauthorized"}
  BY DEF TypesInv, IsCall
<1> QED
  BY <1>1, <1>2 DEF PanelTypeOK, TypesInv, PageOK, Tag

(***************************************************************************)
(* The panel's state is what its screens, its cache and its tables may     *)
(* hold, whatever she presses and whatever the network does (store.ts,     *)
(* api.ts, EventoEditor.tsx), for any people, groups, events, slots and    *)
(* months.                                                                 *)
(***************************************************************************)
THEOREM PanelTypesCorrect == PanelSpec => []PanelTypeOK
<1>1. PanelSpec => []TypesInv
  BY InitTypes, TypesStep, PTL DEF PanelSpec
<1> QED
  BY <1>1, TypesMean, PTL

-----------------------------------------------------------------------------
(***************************************************************************)
(* Who is there.  Until /auth/me has said so nothing else is cached, no    *)
(* call of the page is under way and nothing waits to be asked again; once *)
(* it has, it is not asked again while the panel is open.  The login       *)
(* screen knows nobody, and only its own requests are under way there.     *)
(***************************************************************************)
AtTheDoor == {"login", "magicLink"}

EntryInv ==
  /\ MeQ \in DOMAIN cache
  /\ ~Known(cache) => DOMAIN cache = {MeQ}
  /\ Known(cache) <=> cache[MeQ].state = "done"
  /\ Known(cache) => "Me" \notin owed
  /\ page.at = "login" => ~Known(cache) /\ \A c \in Held(calls) : c.op \in AtTheDoor
  /\ page.at # "login" => /\ cache[MeQ].state # "failed"
                          /\ \A c \in Held(calls) : c.op \notin AtTheDoor
  /\ cache[MeQ].state \in InFlight => Held(calls) = {} /\ owed = {}
  /\ page.at = "editor" /\ page.form # Nothing => Known(cache)

LEMMA MeTyped ==
  ASSUME NEW c, CacheOK(c), MeQ \in DOMAIN c
  PROVE  /\ c[MeQ].state \in InFlight \cup {"done", "failed"}
         /\ Known(c) <=> c[MeQ].data # Nothing
         /\ c[MeQ].state = "answered" => c[MeQ].reply # Nothing
  BY QueryHeads, BrowserAssumption DEF CacheOK, IsEntry, IsData, Known, Seen

LEMMA HeldMoved ==
  ASSUME NEW ds, NEW cs, Moved(ds, cs)
  PROVE  /\ \A d \in Held(ds) : \E c \in Held(cs) : SameCall(d, c)
         /\ \A c \in Held(cs) : \E d \in Held(ds) : SameCall(d, c)
         /\ Held(cs) = {} => Held(ds) = {}
  BY DEF Moved, Held

(***************************************************************************)
(* What is shown next knows who is there if the cache it is shown with     *)
(* does.                                                                   *)
(***************************************************************************)
LEMMA EntryShown ==
  ASSUME TypesInv, EntryInv, NEW p, PageOK(p), NEW c, CacheOK(c),
         NEW cs, \A x \in cs : IsCall(x), OnScreenOf(cs, page.at), Show(p, c, cs),
         MeQ \in DOMAIN c, ~Known(c) => DOMAIN c = {MeQ}, Known(cache) => Known(c),
         Known(c) <=> c[MeQ].state = "done", Known(c) => "Me" \notin owed',
         c[MeQ].state \in InFlight => Held(cs) = {} /\ owed' = {},
         c[MeQ].state = "failed" /\ page.at # "login" => Held(cs) = {} /\ owed' = {},
         p.at # "login" /\ c[MeQ].state = "done" => \A x \in Held(cs) : x.op \notin AtTheDoor,
         p.at = "login" /\ Known(c) => Held(cs) = {},
         c[MeQ].state = "failed" => \A x \in Held(cs) : x.op \in AtTheDoor,
         p.at = "editor" /\ p.form # Nothing => Known(c)
  PROVE  EntryInv'
<1> DEFINE used == Mounting(page', c)
<1>1. /\ PageOK(page') /\ page'.at = Routed(p, c).at
      /\ page' = Seeded(Kept(Routed(p, c), c), c)
      /\ CacheOK(cache') /\ cache' = Mounted(c, used)
      /\ Moved(calls', cs)
  BY Shown DEF TypesInv
<1>0. used \in SUBSET Query
  BY <1>1, UsesTyped
<1>2. /\ DOMAIN cache' = DOMAIN c \cup used
      /\ \A q \in DOMAIN c \cup used :
           \/ q \in DOMAIN c /\ cache'[q] = c[q]
           \/ /\ cache'[q] = Asking(Nothing)
              /\ q \in used
              /\ q \in DOMAIN c => c[q].state = "failed" /\ c[q].data = Nothing
  <2> HIDE DEF used
  <2>1. /\ DOMAIN Mounted(c, used) = DOMAIN c \cup used
        /\ \A q \in DOMAIN c \cup used :
             \/ q \in DOMAIN c /\ Mounted(c, used)[q] = c[q]
             \/ /\ Mounted(c, used)[q] = Asking(Nothing)
                /\ q \in used
                /\ q \in DOMAIN c => c[q].state = "failed" /\ c[q].data = Nothing
    BY <1>0, MountedTyped
  <2>2. cache' = Mounted(c, used)
    BY <1>1
  <2> QED
    BY <2>1, <2>2
<1>3. /\ c[MeQ].state \in InFlight \cup {"done", "failed"}
      /\ Known(c) <=> c[MeQ].data # Nothing
      /\ cache'[MeQ].state \in InFlight \cup {"done", "failed"}
      /\ Known(cache') <=> cache'[MeQ].data # Nothing
  BY <1>1, <1>2, MeTyped
<1>4. \/ cache'[MeQ] = c[MeQ]
      \/ cache'[MeQ] = Asking(Nothing) /\ MeQ \in used /\ c[MeQ].state = "failed" /\ ~Known(c)
  BY <1>2, <1>3
<1>5. /\ Asking(Nothing).state = "asked" /\ Asking(Nothing).data = Nothing
      /\ "asked" \in InFlight /\ "done" \notin InFlight /\ "failed" \notin InFlight
  BY DEF Asking, InFlight
<1>6. Known(cache') <=> Known(c)
  BY <1>3, <1>4, <1>5
<1>7. Failed(c, MeQ) <=> c[MeQ].state = "failed"
  BY DEF Failed
<1>8. page'.at = "login" <=> c[MeQ].state = "failed" \/ (p.at = "login" /\ ~Known(c))
  <2>1. LoginPage.at = "login" /\ ListPage(ThisMonth, Nothing).at = "list"
    BY DEF LoginPage, ListPage
  <2> QED
    BY <1>1, <1>7, <2>1, <1>5 DEF Routed
<1>9. ~Known(c) => used \subseteq {MeQ}
  <2>1. ~Known(c) => ~Known(cache)
    OBVIOUS
  <2>2. ~Known(c) => Uses(page', c) = {MeQ}
    BY DEF Uses
  <2> QED
    BY <2>1, <2>2 DEF Mounting
<1>10. MeQ \in used => page.at # "login" \/ c[MeQ].state # "failed"
  <2> SUFFICES ASSUME MeQ \in used, page.at = "login", c[MeQ].state = "failed" PROVE FALSE
    OBVIOUS
  <2>1. page'.at = "login" /\ ~Known(c) /\ ~Known(cache)
    BY <1>5, <1>8
  <2>2. used = Uses(page', c) \ Uses(page, cache)
    BY <2>1 DEF Mounting, Known
  <2> QED
    BY <2>2, UsesTyped DEF TypesInv
<1>11. cache'[MeQ].state \in InFlight => Held(calls') = {} /\ owed' = {}
  BY <1>1, <1>4, <1>5, <1>10, HeldMoved
<1>12. page'.at = "login" => ~Known(cache') /\ \A x \in Held(calls') : x.op \in AtTheDoor
  BY <1>1, <1>3, <1>5, <1>6, <1>8, HeldMoved DEF SameCall
<1>13. page'.at # "login" => /\ cache'[MeQ].state # "failed"
                             /\ \A x \in Held(calls') : x.op \notin AtTheDoor
  <2> SUFFICES ASSUME page'.at # "login"
               PROVE  /\ cache'[MeQ].state # "failed"
                      /\ \A x \in Held(cs) : x.op \notin AtTheDoor
    BY <1>1, HeldMoved DEF SameCall
  <2>1. c[MeQ].state # "failed"
    BY <1>8
  <2> QED
    BY <1>3, <1>4, <1>8, <2>1
<1>14. page'.at = "editor" /\ page'.form # Nothing => Known(cache')
  <2> SUFFICES ASSUME page'.at = "editor", page'.form # Nothing, ~Known(c) PROVE FALSE
    BY <1>6
  <2>1. Routed(p, c) = p
    BY <1>1 DEF Routed, LoginPage, ListPage
  <2>2. Kept(p, c) = p
    BY <1>1, <2>1, KeptTyped
  <2>3. page' = p
    BY <1>1, <2>1, <2>2, SeededTyped
  <2> QED
    BY <2>3
<1>15. MeQ \in DOMAIN cache' /\ (~Known(cache') => DOMAIN cache' = {MeQ})
  BY <1>2, <1>6, <1>9
<1>16. Known(cache') <=> cache'[MeQ].state = "done"
  BY <1>4, <1>5, <1>6
<1> QED
  BY <1>6, <1>11, <1>12, <1>13, <1>14, <1>15, <1>16 DEF EntryInv

\* What is asked again says no less of who is there.
LEMMA MeRefetched ==
  ASSUME NEW c, CacheOK(c), MeQ \in DOMAIN c, NEW tags, NEW used, MeQ \in used,
         NEW fresh, fresh = Refetched(c, tags, used)
  PROVE  /\ MeQ \in DOMAIN fresh /\ DOMAIN fresh \subseteq DOMAIN c
         /\ fresh[MeQ] = IF "Me" \in tags THEN Asking(c[MeQ].data) ELSE c[MeQ]
         /\ Known(fresh) <=> Known(c)
<1>1. TagOf(MeQ) = "Me"
  BY TagsOf, QueryMembers
<1>2. /\ \A q : q \in DOMAIN fresh <=> q \in DOMAIN c /\ (TagOf(q) \notin tags \/ q \in used)
      /\ \A q \in DOMAIN fresh : fresh[q] = IF TagOf(q) \in tags THEN Asking(c[q].data) ELSE c[q]
  BY RefetchedTyped
<1>3. fresh[MeQ].data = c[MeQ].data
  <2>1. Asking(c[MeQ].data).data = c[MeQ].data
    BY DEF Asking
  <2> QED
    BY <1>1, <1>2, <2>1
<1> QED
  BY <1>1, <1>2, <1>3 DEF Known, Seen

LEMMA EntrySettled ==
  ASSUME TypesInv, EntryInv, NEW p, PageOK(p), NEW c, CacheOK(c),
         NEW cs, \A x \in cs : IsCall(x), OnScreenOf(cs, page.at), NEW more,
         \A x \in more : IsCall(x), OnScreenOf(more, page.at), NEW tags,
         Settle(p, c, cs, more, tags),
         MeQ \in DOMAIN c, ~Known(c) => DOMAIN c = {MeQ}, Known(cache) => Known(c),
         Known(c) <=> c[MeQ].state = "done", c[MeQ].state \notin InFlight,
         Known(c) => "Me" \notin tags,
         page.at # "login" /\ ~Known(c) => Held(cs \cup more) = {} /\ tags = {},
         page.at # "login" /\ Known(c) => /\ p.at # "login"
                                          /\ \A x \in Held(cs \cup more) : x.op \notin AtTheDoor,
         page.at = "login" => more = {} /\ \A x \in Held(cs) : x.op \in AtTheDoor,
         page.at = "login" /\ Known(c) => Held(cs) = {},
         p.at = "editor" /\ p.form # Nothing => Known(c)
  PROVE  EntryInv'
<1>1. PICK fresh :
        /\ CacheOK(fresh) /\ Show(p, fresh, cs \cup more)
        /\ \/ /\ Quiet(c, Held(cs)) /\ owed' = {}
              /\ fresh = Refetched(c, tags, Uses(page, c))
           \/ ~Quiet(c, Held(cs)) /\ owed' = tags /\ fresh = c
  BY Settled
<1>2. MeQ \in Uses(page, c)
  BY UsesTyped DEF TypesInv
<1>3. /\ MeQ \in DOMAIN fresh /\ DOMAIN fresh \subseteq DOMAIN c
      /\ Known(fresh) <=> Known(c)
  BY <1>1, <1>2, MeRefetched
<1>4. \/ fresh[MeQ] = c[MeQ]
      \/ /\ fresh[MeQ].state = "asked" /\ Held(cs) = {} /\ owed' = {} /\ "Me" \in tags
         /\ ~Known(c)
  <2>1. CASE fresh = c
    BY <2>1
  <2>2. CASE /\ Quiet(c, Held(cs)) /\ owed' = {}
             /\ fresh = Refetched(c, tags, Uses(page, c))
    <3>1. fresh[MeQ] = IF "Me" \in tags THEN Asking(c[MeQ].data) ELSE c[MeQ]
      BY <1>2, <2>2, MeRefetched
    <3>2. Asking(c[MeQ].data).state = "asked"
      BY DEF Asking
    <3> QED
      BY <2>2, <3>1, <3>2 DEF Quiet
  <2> QED
    BY <1>1, <2>1, <2>2
<1>5. c[MeQ].state \in {"done", "failed"} /\ "asked" \in InFlight /\ "done" \notin InFlight
      /\ "failed" \notin InFlight
  BY MeTyped DEF InFlight
<1>6. Held(cs) = {} /\ more = {} => Held(cs \cup more) = {}
  BY DEF Held
<1>7. page.at = "login" => cs \cup more = cs
  OBVIOUS
<1>8. owed' \in {{}, tags}
  BY <1>1
<1>9. (\A x \in cs \cup more : IsCall(x)) /\ OnScreenOf(cs \cup more, page.at)
  BY DEF OnScreenOf
<1>10. fresh[MeQ].state \in InFlight => Held(cs \cup more) = {} /\ owed' = {}
  BY <1>4, <1>5, <1>6
<1>11. fresh[MeQ].state = "failed" /\ page.at # "login" => Held(cs \cup more) = {} /\ owed' = {}
  BY <1>4, <1>5, <1>8
<1>12. p.at # "login" /\ fresh[MeQ].state = "done" => \A x \in Held(cs \cup more) : x.op \notin AtTheDoor
  BY <1>4, <1>5, <1>6
<1>13. p.at = "login" /\ Known(fresh) => Held(cs \cup more) = {}
  BY <1>3, <1>6
<1>14. fresh[MeQ].state = "failed" => \A x \in Held(cs \cup more) : x.op \in AtTheDoor
  BY <1>7, <1>11
<1>15. Known(fresh) <=> fresh[MeQ].state = "done"
  BY <1>3, <1>4, <1>5
<1>16. (~Known(fresh) => DOMAIN fresh = {MeQ}) /\ (Known(fresh) => "Me" \notin owed')
  BY <1>3, <1>8
<1> QED
  BY <1>1, <1>3, <1>9, <1>10, <1>11, <1>12, <1>13, <1>14, <1>15, <1>16, EntryShown

\* A page loaded anew asks who is there and has nothing under way.
LEMMA EntryLoaded ==
  ASSUME TypesInv, NEW p, PageOK(p), NEW cs \in SUBSET calls, Reloaded(p, cs),
         p.at = "editor" => p.form = Nothing
  PROVE  EntryInv'
<1>1. \A x \in cs : IsCall(x)
  BY DEF TypesInv
<1>2. /\ page' = p /\ cache' = [q \in {MeQ} |-> Asking(Nothing)]
      /\ owed' = {} /\ Held(calls') = {}
  BY <1>1, Loaded
<1>3. /\ DOMAIN cache' = {MeQ} /\ cache'[MeQ].state = "asked" /\ cache'[MeQ].data = Nothing
  BY <1>2 DEF Asking
<1>4. ~Known(cache')
  BY <1>3 DEF Known, Seen
<1> QED
  BY <1>2, <1>3, <1>4 DEF EntryInv, InFlight

\* What leaves the page, its account and its calls alone.
LEMMA EntryKept ==
  ASSUME TypesInv, EntryInv, TypesInv', UNCHANGED owed,
         page'.at = page.at,
         page.at = "editor" /\ page'.form # Nothing => page.form # Nothing,
         MeQ \in DOMAIN cache', cache'[MeQ].data = cache[MeQ].data,
         \/ cache'[MeQ].state = cache[MeQ].state
         \/ cache[MeQ].state \in InFlight /\ cache'[MeQ].state \in InFlight,
         ~Known(cache) => DOMAIN cache' \subseteq {MeQ},
         \A d \in Held(calls') : (\E c \in Held(calls) : d.op = c.op) \/ (Shows /\ ScreenOf(d, page.at))
  PROVE  EntryInv'
<1>1. Known(cache') <=> Known(cache)
  BY DEF EntryInv, Known, Seen
<1>2. /\ "done" \notin InFlight /\ "failed" \notin InFlight
      /\ cache[MeQ].state \in InFlight \cup {"done", "failed"}
  BY MeTyped DEF EntryInv, TypesInv, InFlight
<1>3. \A d : IsCall(d) /\ ScreenOf(d, page.at) => (d.op \in AtTheDoor <=> page.at = "login")
  BY DEF IsCall, ScreenOf, AtTheDoor, EventOps, EntryOps, AvisosOps, TeamOps
<1>4. \A d \in Held(calls') : d.op \in AtTheDoor <=> page.at = "login"
  BY <1>3 DEF EntryInv, Held, TypesInv
<1>5. Shows => cache[MeQ].state \notin InFlight
  BY <1>2 DEF Shows, FormShown, Editing, EntryInv
<1>6. cache'[MeQ].state \in InFlight => Held(calls') = {} /\ owed' = {}
  BY <1>2, <1>5 DEF EntryInv, Held
<1> QED
  BY <1>1, <1>2, <1>4, <1>6 DEF EntryInv

LEMMA EntryPressed ==
  ASSUME TypesInv, EntryInv, TypesInv', Pressed \/ OpenLink
  PROVE  EntryInv'
<1>1. ASSUME Aside, Drawn, page.at = "editor" /\ page'.form # Nothing => page.form # Nothing,
             \A d \in Held(calls') : (\E c \in Held(calls) : d.op = c.op) \/ (Shows /\ ScreenOf(d, page.at))
      PROVE  EntryInv'
  <2>1. UNCHANGED <<cache, owed>> /\ page'.at = page.at
    BY <1>1 DEF Aside, Drawn
  <2>2. MeQ \in DOMAIN cache /\ (~Known(cache) => DOMAIN cache \subseteq {MeQ})
    BY DEF EntryInv
  <2> QED
    BY <1>1, <2>1, <2>2, EntryKept
<1>2. CASE Typing
  BY <1>1, <1>2 DEF Typing, Drawn, Held
<1>3. CASE Closing
  BY <1>1, <1>3, HeldMoved DEF Closing, SameCall
<1>4. ASSUME NEW call, Sending(call) PROVE EntryInv'
  BY <1>1, <1>4 DEF Sending, Held
<1>5. ASSUME NEW p, Turning(p) PROVE EntryInv'
  <2>1. /\ PageOK(p) /\ CacheOK(cache) /\ (\A x \in calls : IsCall(x)) /\ OnScreenOf(calls, page.at)
        /\ Show(p, cache, calls) /\ owed' = owed /\ Known(cache) /\ page.at # "login" /\ p.at # "login"
    BY <1>5 DEF TypesInv, Turning, Turn
  <2>2. cache[MeQ].state = "done"
    BY <2>1 DEF EntryInv
  <2> QED
    BY <2>1, <2>2, EntryShown DEF EntryInv, InFlight
<1>6. CASE OpenLink
  <2>1. /\ PageOK(ListPage(ThisMonth, Nothing)) /\ Reloaded(ListPage(ThisMonth, Nothing), calls)
        /\ ListPage(ThisMonth, Nothing).at = "list"
    BY <1>6, PagesTyped, BrowserAssumption DEF OpenLink, ListPage
  <2> QED
    BY <2>1, EntryLoaded
<1> QED
  BY <1>2, <1>3, <1>4, <1>5, <1>6 DEF Pressed

LEMMA EntryServed ==
  ASSUME TypesInv, EntryInv, TypesInv',
         \/ \E q : Serve(q) \/ LoseQuery(q)
         \/ (\E q : Forget(q)) \/ Poll
  PROVE  EntryInv'
<1>1. UNCHANGED <<page, calls, owed>>
  BY DEF Serve, LoseQuery, Forget, Poll
<1>2. /\ MeQ \in DOMAIN cache' /\ cache'[MeQ].data = cache[MeQ].data
      /\ \/ cache'[MeQ].state = cache[MeQ].state
         \/ cache[MeQ].state \in InFlight /\ cache'[MeQ].state \in InFlight
      /\ DOMAIN cache' \subseteq DOMAIN cache
  <2>1. ASSUME NEW q, Serve(q) \/ LoseQuery(q)
        PROVE  /\ DOMAIN cache' = DOMAIN cache
               /\ q \in DOMAIN cache
               /\ \A r \in DOMAIN cache : r # q => cache'[r] = cache[r]
               /\ cache'[q].data = cache[q].data
               /\ cache[q].state \in InFlight /\ cache'[q].state \in InFlight
    <3>1. IsEntry(q, cache[q]) /\ q \in DOMAIN cache /\ cache[q].state \in InFlight
      BY <2>1 DEF Serve, LoseQuery, TypesInv, CacheOK, InFlight
    <3>2. \E state \in InFlight : \E reply : cache' = [cache EXCEPT ![q].state = state, ![q].reply = reply]
      BY <2>1 DEF Serve, LoseQuery, InFlight
    <3>3. PICK state \in InFlight : \E reply : cache' = [cache EXCEPT ![q].state = state, ![q].reply = reply]
      BY <3>2
    <3>4. PICK reply : cache' = [cache EXCEPT ![q].state = state, ![q].reply = reply]
      BY <3>3
    <3>5. cache[q] = [state |-> cache[q].state, data |-> cache[q].data, reply |-> cache[q].reply]
      BY <3>1 DEF IsEntry
    <3>6. DOMAIN cache' = DOMAIN cache /\ \A r \in DOMAIN cache : r # q => cache'[r] = cache[r]
      BY <3>4
    <3>7. cache'[q] = [state |-> state, data |-> cache[q].data, reply |-> reply]
      BY <3>1, <3>4, <3>5
    <3> QED
      BY <3>1, <3>6, <3>7
  <2>2. ASSUME NEW q, Forget(q)
        PROVE  /\ DOMAIN cache' \subseteq DOMAIN cache
               /\ MeQ \in DOMAIN cache' /\ cache'[MeQ] = cache[MeQ]
    <3>1. q # MeQ
      BY <2>2, UsesTyped DEF Forget, TypesInv
    <3> QED
      BY <2>2, <3>1 DEF Forget, Without, EntryInv
  <2>3. CASE Poll
    <3>1. cache' = [cache EXCEPT ![BroadcastsQ] = Asking(cache[BroadcastsQ].data)]
      BY <2>3 DEF Poll
    <3>2. BroadcastsQ # MeQ
      BY QueryHeads
    <3> QED
      BY <3>1, <3>2 DEF EntryInv
  <2> QED
    BY <2>1, <2>2, <2>3 DEF EntryInv
<1>3. ~Known(cache) => DOMAIN cache' \subseteq {MeQ}
  BY <1>2 DEF EntryInv
<1> QED
  BY <1>1, <1>2, <1>3, EntryKept DEF Held

LEMMA EntryCalled ==
  ASSUME TypesInv, EntryInv, TypesInv',
         (\E c : LoseCall(c)) \/ (\E c, d : Handling(c, d)) \/ Meanwhile
  PROVE  EntryInv'
<1>1. UNCHANGED <<cache, owed>>
  BY DEF LoseCall, Handling, Meanwhile, Elsewhere, Announcement, Delivery, Behind
<1>2. \A d \in Held(calls') : \E c \in Held(calls) : d.op = c.op
  <2>1. ASSUME NEW c, LoseCall(c) PROVE \A d \in Held(calls') : \E x \in Held(calls) : d.op = x.op
    BY <2>1, LosesCall DEF Held
  <2>2. ASSUME NEW c, NEW d, Handling(c, d) PROVE \A y \in Held(calls') : \E x \in Held(calls) : y.op = x.op
    BY <2>2 DEF Handling, Held
  <2>3. CASE Meanwhile
    BY <2>3 DEF Meanwhile, Elsewhere, Announcement, Delivery, Behind, Held
  <2> QED
    BY <2>1, <2>2, <2>3
<1>3. page'.at = page.at /\ (page.at = "editor" => page'.form = page.form)
  <2>1. CASE UNCHANGED page
    BY <2>1
  <2>2. ASSUME NEW e \in Event, page' = [page EXCEPT !.made = @ \cup {e}], page.at = "editor"
        PROVE  page'.at = page.at /\ page'.form = page.form
    <3>1. page \in AtEditor
      BY <2>2, EditorKnows
    <3> QED
      BY <2>2, <3>1 DEF AtEditor
  <2>3. ASSUME NEW c, NEW d, Handling(c, d)
        PROVE  UNCHANGED page \/ (page.at = "editor" /\ \E e \in Event : page' = [page EXCEPT !.made = @ \cup {e}])
    BY <2>3 DEF Handling, TypesInv, OnScreenOf, ScreenOf, EventOps
  <2> QED
    BY <2>1, <2>2, <2>3 DEF LoseCall, Meanwhile, Elsewhere, Announcement, Delivery, Behind
<1>4. MeQ \in DOMAIN cache /\ (~Known(cache) => DOMAIN cache \subseteq {MeQ})
  BY DEF EntryInv
<1> QED
  BY <1>1, <1>2, <1>3, <1>4, EntryKept

LEMMA EntryArrived ==
  ASSUME TypesInv, EntryInv, NEW q, Arrive(q)
  PROVE  EntryInv'
<1>1. /\ q \in DOMAIN cache /\ q \in Query /\ cache[q].state \in InFlight \ {"asked"}
      /\ IsEntry(q, cache[q])
  BY DEF Arrive, TypesInv, CacheOK
<1>2. CASE Reloaded(LoginPage, calls)
  BY <1>2, EntryLoaded, PagesTyped DEF LoginPage
<1>3. ASSUME NEW entries, entries = [cache EXCEPT ![q] = Ended(cache[q])],
             Settle(page, entries, calls, {}, owed)
      PROVE  EntryInv'
  <2>1. IsEntry(q, Ended(cache[q]))
    BY <1>1, EndedTyped
  <2>2. /\ DOMAIN entries = DOMAIN cache /\ entries[q] = Ended(cache[q])
        /\ \A r \in DOMAIN cache : r # q => entries[r] = cache[r]
    BY <1>1, <1>3
  <2>3. CacheOK(entries)
    BY <2>1, <2>2 DEF CacheOK, TypesInv
  <2>4. /\ Ended(cache[q]).state \in {"done", "failed"}
        /\ Ended(cache[q]).state = "done" => IsData(q, Ended(cache[q]).data)
        /\ Ended(cache[q]).state = "failed" => Ended(cache[q]).data = cache[q].data
    BY <1>1 DEF Ended, IsEntry
  <2>5. "done" \notin InFlight /\ "failed" \notin InFlight
    BY DEF InFlight
  <2>6. /\ MeQ \in DOMAIN entries
        /\ entries[MeQ].state \notin InFlight
        /\ Known(entries) <=> entries[MeQ].state = "done"
        /\ Known(cache) => Known(entries)
        /\ ~Known(entries) => DOMAIN entries = {MeQ}
        /\ page.at # "login" /\ ~Known(entries) => Held(calls) = {} /\ owed = {}
        /\ page.at = "login" /\ Known(entries) => Held(calls) = {}
    <3>1. CASE q = MeQ
      <4>1. ~Known(cache) /\ Held(calls) = {} /\ owed = {}
        BY <1>1, <2>5, <3>1 DEF EntryInv
      <4>2. Known(entries) <=> entries[MeQ].state = "done"
        <5>1. entries[MeQ].state = "done" => entries[MeQ].data # Nothing
          BY <2>2, <2>4, <3>1, QueryHeads, BrowserAssumption DEF IsData
        <5>2. entries[MeQ].state # "done" => entries[MeQ].data = cache[MeQ].data
          BY <2>2, <2>4, <3>1
        <5>3. cache[MeQ].data = Nothing /\ MeQ \in DOMAIN entries
          BY <1>1, <2>2, <3>1, <4>1 DEF Known, Seen
        <5> QED
          BY <5>1, <5>2, <5>3 DEF Known, Seen
      <4>3. DOMAIN entries = {MeQ}
        BY <2>2, <4>1 DEF EntryInv
      <4> QED
        BY <2>2, <2>4, <2>5, <3>1, <4>1, <4>2, <4>3
    <3>2. CASE q # MeQ
      <4>1. Known(cache) /\ cache[MeQ].state = "done"
        BY <1>1, <3>2 DEF EntryInv
      <4>2. MeQ \in DOMAIN entries /\ entries[MeQ] = cache[MeQ]
        BY <2>2, <3>2 DEF EntryInv
      <4>3. Known(entries)
        BY <4>1, <4>2 DEF Known, Seen
      <4>4. page.at # "login"
        BY <4>1 DEF EntryInv
      <4> QED
        BY <2>5, <4>1, <4>2, <4>3, <4>4
    <3> QED
      BY <3>1, <3>2
  <2>7. /\ PageOK(page) /\ (\A x \in calls : IsCall(x)) /\ OnScreenOf(calls, page.at)
        /\ OnScreenOf({}, page.at) /\ calls \cup {} = calls
    BY DEF TypesInv, OnScreenOf
  <2>8. Known(entries) => "Me" \notin owed
    <3>1. CASE Known(cache)
      BY <3>1 DEF EntryInv
    <3>2. CASE ~Known(cache)
      <4>1. q = MeQ
        BY <1>1, <3>2 DEF EntryInv
      <4> QED
        BY <1>1, <4>1 DEF EntryInv
    <3> QED
      BY <3>1, <3>2
  <2>9. /\ page.at # "login" => \A x \in Held(calls) : x.op \notin AtTheDoor
        /\ page.at = "login" => \A x \in Held(calls) : x.op \in AtTheDoor
        /\ page.at = "editor" /\ page.form # Nothing => Known(cache)
    BY DEF EntryInv
  <2> QED
    BY <1>3, <2>3, <2>6, <2>7, <2>8, <2>9, EntrySettled
<1>4. Reloaded(LoginPage, calls)
      \/ \E entries \in {[cache EXCEPT ![q] = Ended(@)]} : Settle(page, entries, calls, {}, owed)
  BY DEF Arrive
<1> QED
  BY <1>2, <1>3, <1>4

\* What a call leaves stale of who is there: only the ways in and out do.
LEMMA MeOnlyByEntry == \A op : "Me" \in Invalidates(op) => op \in {"login", "logout"}
  BY DEF Invalidates, EVENT_TAGS

LEMMA EntryEnded ==
  ASSUME TypesInv, EntryInv, TypesInv', NEW c, NEW p, NEW more, Ending(c, p, more)
  PROVE  EntryInv'
<1>1. c \in calls /\ Finish(c, p, more) /\ PageOK(p) /\ (c.op = "logout" => c.from = "gone")
      /\ Turned(c, p) /\ FollowedBy(c, p, more)
  BY DEF Ending
<1>2. CASE c.from = "gone" /\ calls' = calls \ {c} /\ UNCHANGED <<page, cache, owed, aged>>
  <2>1. Held(calls') = Held(calls)
    BY <1>2 DEF Held
  <2>2. MeQ \in DOMAIN cache /\ (~Known(cache) => DOMAIN cache \subseteq {MeQ})
    BY DEF EntryInv
  <2> QED
    BY <1>2, <2>1, <2>2, EntryKept
<1>3. CASE Reloaded(LoginPage, calls \ {c})
  BY <1>3, EntryLoaded, PagesTyped DEF LoginPage
<1>4. CASE c.from # "gone" /\ Settle(p, cache, calls \ {c}, more, owed \cup Invalidates(c.op))
  <2>1. c \in Held(calls)
    BY <1>1, <1>4 DEF Held
  <2>2. /\ MeQ \in DOMAIN cache /\ cache[MeQ].state \notin InFlight
        /\ Known(cache) <=> cache[MeQ].state = "done"
        /\ ~Known(cache) => DOMAIN cache = {MeQ}
    BY <2>1 DEF EntryInv
  <2>3. page.at # "login" => /\ Known(cache) /\ c.op \notin {"login", "magicLink", "logout"}
                             /\ p.at # "login"
    <3>1. page.at # "login" => Known(cache) /\ c.op \notin {"login", "magicLink", "logout"}
      BY <1>1, <1>4, <2>1, <2>2, MeTyped DEF EntryInv, AtTheDoor, TypesInv
    <3>2. page.at # "login" => p.at # "login"
      BY <1>1 DEF Turned
    <3> QED
      BY <3>1, <3>2
  <2>4. page.at = "login" => /\ ~Known(cache) /\ c.op \in AtTheDoor /\ more = {}
    <3>1. page.at = "login" => ~Known(cache) /\ c.op \in AtTheDoor
      BY <2>1 DEF EntryInv
    <3>2. c.op \in AtTheDoor => c.op \notin Saving
      BY DEF AtTheDoor, Saving
    <3> QED
      BY <1>1, <3>1, <3>2 DEF FollowedBy
  <2>5. Known(cache) => "Me" \notin owed \cup Invalidates(c.op)
    BY <2>3, <2>4, MeOnlyByEntry DEF EntryInv
  <2>6. /\ \A x \in more : IsCall(x) /\ x.op = "publish"
        /\ OnScreenOf(more, page.at)
    BY <1>1 DEF FollowedBy, TypesInv, OnScreenOf, ScreenOf, Saving, EventOps, AvisosOps, TeamOps
  <2>7. page.at # "login" => \A x \in Held((calls \ {c}) \cup more) : x.op \notin AtTheDoor
    BY <2>6 DEF Held, EntryInv, AtTheDoor
  <2>8. page.at = "login" => \A x \in Held(calls \ {c}) : x.op \in AtTheDoor
    BY DEF Held, EntryInv
  <2>9. p.at = "editor" /\ p.form # Nothing => Known(cache)
    BY <1>1 DEF Turned, EntryInv
  <2>10. /\ CacheOK(cache) /\ (\A x \in calls \ {c} : IsCall(x)) /\ OnScreenOf(calls \ {c}, page.at)
    BY DEF TypesInv, OnScreenOf
  <2> QED
    BY <1>1, <1>4, <2>2, <2>3, <2>4, <2>5, <2>6, <2>7, <2>8, <2>9, <2>10, EntrySettled
<1> QED
  BY <1>1, <1>2, <1>3, <1>4, Finished

LEMMA EntryStart == PanelInit => EntryInv
<1> SUFFICES ASSUME PanelInit PROVE EntryInv
  OBVIOUS
<1>1. TypesInv /\ calls = {} /\ owed = {} /\ Held(calls) = {}
  BY FirstLoad, InitTypes DEF Held
<1>2. PICK p : /\ PageOK(p)
               /\ \/ /\ SignedIn /\ p.at # "login" /\ page = Seeded(p, cache) /\ CacheOK(cache)
                     /\ MeQ \in DOMAIN cache
                     /\ \A q \in DOMAIN cache :
                          cache[q] = [state |-> "done", data |-> Read(q), reply |-> Nothing]
                  \/ /\ page = p /\ cache = [q \in {MeQ} |-> Asking(Nothing)]
                     /\ p.at = "editor" => p.form = Nothing
  BY FirstLoad
<1>3. CASE /\ SignedIn /\ p.at # "login" /\ page = Seeded(p, cache)
           /\ MeQ \in DOMAIN cache
           /\ \A q \in DOMAIN cache :
                cache[q] = [state |-> "done", data |-> Read(q), reply |-> Nothing]
  <2>1. cache[MeQ].state = "done" /\ cache[MeQ].data = Read(MeQ)
    BY <1>3
  <2>2. IsData(MeQ, Read(MeQ))
    BY <1>1, <1>3, ReadTyped, QueryMembers, QueryHeads DEF TypesInv, SignedIn, There
  <2>3. Read(MeQ) # Nothing
    BY <2>2, QueryHeads, BrowserAssumption DEF IsData
  <2>4. Known(cache)
    BY <1>3, <2>1, <2>3 DEF Known, Seen
  <2>5. page.at # "login"
    BY <1>1, <1>2, <1>3, SeededTyped
  <2> QED
    BY <1>1, <1>3, <2>1, <2>4, <2>5 DEF EntryInv, InFlight
<1>4. CASE /\ page = p /\ cache = [q \in {MeQ} |-> Asking(Nothing)]
           /\ p.at = "editor" => p.form = Nothing
  <2>1. DOMAIN cache = {MeQ} /\ cache[MeQ].state = "asked" /\ ~Known(cache)
    BY <1>4 DEF Asking, Known, Seen
  <2> QED
    BY <1>1, <1>4, <2>1 DEF EntryInv, InFlight
<1> QED
  BY <1>2, <1>3, <1>4

LEMMA EntryTaken ==
  ASSUME TypesInv, EntryInv, [PanelNext]_panelVars
  PROVE  EntryInv'
<1>1. TypesInv'
  BY TypesStep
<1>2. CASE UNCHANGED panelVars
  BY <1>2 DEF panelVars, pageVars, EntryInv, Held
<1>3. ASSUME NEW c, SignsOut(c) PROVE EntryInv'
  BY <1>3, EntryLoaded, PagesTyped DEF SignsOut, LoginPage
<1>4. CASE PanelNext
  BY <1>1, <1>3, <1>4, Steps, EntryPressed, EntryServed, EntryArrived, EntryCalled, EntryEnded
<1> QED
  BY <1>2, <1>4

(***************************************************************************)
(* The login screen remembers nothing of the session before: it is reached *)
(* by loading the page anew, which drops the cache and every call but the  *)
(* login screen's own (location.assign in api.ts and Shell.tsx, and        *)
(* resetApiState in api.ts).                                               *)
(***************************************************************************)
THEOREM NothingRemembered == PanelSpec => []LoginRemembersNothing
<1>1. PanelInit => TypesInv /\ EntryInv
  BY InitTypes, EntryStart
<1>2. TypesInv /\ EntryInv /\ [PanelNext]_panelVars => (TypesInv /\ EntryInv)'
  BY TypesStep, EntryTaken
<1>3. EntryInv => LoginRemembersNothing
  BY DEF EntryInv, LoginRemembersNothing, AtTheDoor
<1> QED
  BY <1>1, <1>2, <1>3, PTL DEF PanelSpec

-----------------------------------------------------------------------------
(***************************************************************************)
(* What is cached.  An answer, on its way or arrived, is what the server   *)
(* still has, unless others changed it since or its tag waits to be asked  *)
(* again: made stale already, or by a call that the server has handled and *)
(* whose end the page has not seen.                                        *)
(***************************************************************************)
Stale(q, tags, cs) == \/ TagOf(q) \in tags
                      \/ \E c \in Held(cs) : c.stage # "sent" /\ TagOf(q) \in Invalidates(c.op)

FreshEntries(c, tags, cs) ==
  \A q \in DOMAIN c \ (aged \cup {MeQ}) : There(q) =>
    /\ c[q].state = "done" => c[q].data = Read(q) \/ Stale(q, tags, cs)
    /\ c[q].state = "answered" => c[q].reply = Read(q) \/ Stale(q, tags, cs)

FreshInv == FreshEntries(cache, owed, calls)

\* What an endpoint answers with changes only with its table.
LEMMA ReadKept ==
  ASSUME NEW q \in Query, q # MeQ,
         TagOf(q) = "Events" => UNCHANGED events,
         TagOf(q) = "Broadcasts" => UNCHANGED rows,
         TagOf(q) = "Channels" => UNCHANGED channels,
         TagOf(q) = "Users" => UNCHANGED team
  PROVE  Read(q)' = Read(q) /\ There(q)' = There(q)
<1> USE DEF Read, There
<1>1. CASE q = BroadcastsQ
  BY <1>1, TagsOf, QueryHeads
<1>2. CASE q = ChannelsQ
  BY <1>2, TagsOf, QueryHeads
<1>3. CASE q = UsersQ
  BY <1>3, TagsOf, QueryHeads
<1>4. ASSUME NEW m \in Months, q = EventsQ(m) PROVE Read(q)' = Read(q) /\ There(q)' = There(q)
  <2>1. UNCHANGED events /\ q[1] = "events"
    BY <1>4, TagsOf, QueryHeads
  <2> QED
    BY <2>1 DEF View
<1>5. ASSUME NEW e \in Event, q = EventQ(e) PROVE Read(q)' = Read(q) /\ There(q)' = There(q)
  <2>1. UNCHANGED events /\ q[1] = "event"
    BY <1>5, TagsOf, QueryHeads
  <2> QED
    BY <2>1 DEF View
<1> QED
  BY <1>1, <1>2, <1>3, <1>4, <1>5, QueryCases

\* What waits to be asked again still does when the calls are seen from elsewhere,
\* or more of them have been handled.
LEMMA StaleKept ==
  ASSUME NEW tags, NEW more, tags \subseteq more, NEW cs, NEW ds,
         \A c \in Held(cs) : c.stage # "sent" => \E d \in Held(ds) : d.op = c.op /\ d.stage # "sent"
  PROVE  \A q : Stale(q, tags, cs) => Stale(q, more, ds)
  BY DEF Stale

LEMMA FreshShown ==
  ASSUME TypesInv, NEW p, PageOK(p), NEW c, CacheOK(c),
         NEW cs, \A x \in cs : IsCall(x), OnScreenOf(cs, page.at), Show(p, c, cs),
         UNCHANGED <<officeVars, aged>>, FreshEntries(c, owed', cs)
  PROVE  FreshInv'
<1> DEFINE used == Mounting(page', c)
<1>1. PageOK(page') /\ cache' = Mounted(c, used) /\ Moved(calls', cs)
  BY Shown DEF TypesInv
<1>2. used \in SUBSET Query
  BY <1>1, UsesTyped
<1> HIDE DEF used
<1>3. \A q \in DOMAIN cache' : \/ q \in DOMAIN c /\ cache'[q] = c[q]
                               \/ cache'[q] = Asking(Nothing)
  <2>1. \A q \in DOMAIN Mounted(c, used) : \/ q \in DOMAIN c /\ Mounted(c, used)[q] = c[q]
                                         \/ Mounted(c, used)[q] = Asking(Nothing)
    <3>1. /\ DOMAIN Mounted(c, used) = DOMAIN c \cup used
          /\ \A q \in DOMAIN c \cup used :
               \/ q \in DOMAIN c /\ Mounted(c, used)[q] = c[q]
               \/ Mounted(c, used)[q] = Asking(Nothing)
      BY <1>2, MountedTyped
    <3> QED
      BY <3>1
  <2> QED
    BY <1>1, <2>1
<1>4. \A q : Stale(q, owed', cs) => Stale(q, owed', calls')
  <2>1. \A x \in Held(cs) : x.stage # "sent" => \E d \in Held(calls') : d.op = x.op /\ d.stage # "sent"
    BY <1>1, HeldMoved DEF SameCall
  <2> QED
    BY <2>1, StaleKept
<1>5. \A q \in DOMAIN c \ {MeQ} : Read(q)' = Read(q) /\ There(q)' = There(q)
  BY ReadKept DEF CacheOK, officeVars, logVars, ledgerVars
<1>6. Asking(Nothing).state = "asked"
  BY DEF Asking
<1> SUFFICES ASSUME NEW q \in DOMAIN cache' \ (aged' \cup {MeQ}), There(q)'
             PROVE  /\ cache'[q].state = "done" => cache'[q].data = Read(q)' \/ Stale(q, owed', calls')
                    /\ cache'[q].state = "answered" => cache'[q].reply = Read(q)' \/ Stale(q, owed', calls')
  BY DEF FreshInv, FreshEntries
<1>7. CASE cache'[q] = Asking(Nothing)
  BY <1>6, <1>7
<1>8. CASE q \in DOMAIN c /\ cache'[q] = c[q]
  BY <1>4, <1>5, <1>8 DEF FreshEntries
<1> QED
  BY <1>3, <1>7, <1>8

LEMMA FreshSettled ==
  ASSUME TypesInv, NEW p, PageOK(p), NEW c, CacheOK(c),
         NEW cs, \A x \in cs : IsCall(x), OnScreenOf(cs, page.at), NEW more,
         \A x \in more : IsCall(x), OnScreenOf(more, page.at), NEW tags,
         Settle(p, c, cs, more, tags), UNCHANGED <<officeVars, aged>>, FreshEntries(c, tags, cs)
  PROVE  FreshInv'
<1>1. PICK fresh :
        /\ CacheOK(fresh) /\ Show(p, fresh, cs \cup more)
        /\ \/ /\ Quiet(c, Held(cs)) /\ owed' = {}
              /\ fresh = Refetched(c, tags, Uses(page, c))
           \/ ~Quiet(c, Held(cs)) /\ owed' = tags /\ fresh = c
  BY Settled
<1>2. FreshEntries(fresh, owed', cs \cup more)
  <2>1. CASE owed' = tags /\ fresh = c
    <3>1. \A q : Stale(q, tags, cs) => Stale(q, tags, cs \cup more)
      BY DEF Stale, Held
    <3> QED
      BY <2>1, <3>1 DEF FreshEntries
  <2>2. CASE Quiet(c, Held(cs)) /\ fresh = Refetched(c, tags, Uses(page, c))
    <3>1. \A q \in DOMAIN fresh : /\ q \in DOMAIN c
                                  /\ fresh[q] = IF TagOf(q) \in tags THEN Asking(c[q].data) ELSE c[q]
      BY <2>2, RefetchedTyped
    <3>2. \A x : Asking(x).state = "asked"
      BY DEF Asking
    <3>3. \A q : Stale(q, tags, cs) => TagOf(q) \in tags
      BY <2>2 DEF Quiet, Stale
    <3>4. \A q \in DOMAIN fresh : There(q) /\ q \notin aged \cup {MeQ} =>
            /\ fresh[q].state = "done" => fresh[q].data = Read(q)
            /\ fresh[q].state = "answered" => fresh[q].reply = Read(q)
      BY <3>1, <3>2, <3>3 DEF FreshEntries
    <3> QED
      BY <3>4 DEF FreshEntries
  <2> QED
    BY <1>1, <2>1, <2>2
<1>3. (\A x \in cs \cup more : IsCall(x)) /\ OnScreenOf(cs \cup more, page.at)
  BY DEF OnScreenOf
<1> QED
  BY <1>1, <1>2, <1>3, FreshShown

\* A page loaded anew holds no answer.
LEMMA FreshLoaded ==
  ASSUME TypesInv, NEW p, PageOK(p), NEW cs \in SUBSET calls, Reloaded(p, cs)
  PROVE  FreshInv'
<1>1. \A x \in cs : IsCall(x)
  BY DEF TypesInv
<1>2. cache' = [q \in {MeQ} |-> Asking(Nothing)]
  BY <1>1, Loaded
<1>3. DOMAIN cache' \ (aged' \cup {MeQ}) = {}
  BY <1>2
<1> QED
  BY <1>3 DEF FreshInv, FreshEntries

\* What leaves the tables alone, and the entries that hold an answer.
LEMMA FreshKept ==
  ASSUME TypesInv, FreshInv, UNCHANGED <<logVars, rows, channels, team, owed, aged>>,
         \A q \in DOMAIN cache' : \/ q \in DOMAIN cache /\ cache'[q] = cache[q]
                                  \/ cache'[q].state \notin {"done", "answered"},
         \A c \in Held(calls) : c.stage # "sent" => \E d \in Held(calls') : d.op = c.op /\ d.stage # "sent"
  PROVE  FreshInv'
<1>1. \A q : Stale(q, owed, calls) => Stale(q, owed', calls')
  BY StaleKept
<1>2. \A q \in DOMAIN cache \ {MeQ} : Read(q)' = Read(q) /\ There(q)' = There(q)
  BY ReadKept DEF TypesInv, CacheOK, logVars
<1> SUFFICES ASSUME NEW q \in DOMAIN cache' \ (aged' \cup {MeQ}), There(q)'
             PROVE  /\ cache'[q].state = "done" => cache'[q].data = Read(q)' \/ Stale(q, owed', calls')
                    /\ cache'[q].state = "answered" => cache'[q].reply = Read(q)' \/ Stale(q, owed', calls')
  BY DEF FreshInv, FreshEntries
<1>3. CASE q \in DOMAIN cache /\ cache'[q] = cache[q]
  BY <1>1, <1>2, <1>3 DEF FreshInv, FreshEntries
<1>4. CASE cache'[q].state \notin {"done", "answered"}
  BY <1>4
<1> QED
  BY <1>3, <1>4

LEMMA FreshPressed ==
  ASSUME TypesInv, FreshInv, Pressed \/ OpenLink
  PROVE  FreshInv'
<1>1. ASSUME Aside, \A c \in Held(calls) : c.stage # "sent" =>
                      \E d \in Held(calls') : d.op = c.op /\ d.stage # "sent"
      PROVE  FreshInv'
  BY <1>1, FreshKept DEF Aside, officeVars, ledgerVars
<1>2. CASE Typing
  BY <1>1, <1>2 DEF Typing, Held
<1>3. CASE Closing
  BY <1>1, <1>3, HeldMoved DEF Closing, SameCall
<1>4. ASSUME NEW call, Sending(call) PROVE FreshInv'
  BY <1>1, <1>4 DEF Sending, Held
<1>5. ASSUME NEW p, Turning(p) PROVE FreshInv'
  <2>1. /\ PageOK(p) /\ CacheOK(cache) /\ (\A x \in calls : IsCall(x)) /\ OnScreenOf(calls, page.at)
        /\ Show(p, cache, calls) /\ owed' = owed /\ UNCHANGED <<officeVars, aged>>
    BY <1>5 DEF TypesInv, Turning, Turn
  <2>2. FreshEntries(cache, owed', calls)
    BY <2>1 DEF FreshInv
  <2> QED
    BY <2>1, <2>2, FreshShown
<1>6. CASE OpenLink
  BY <1>6, FreshLoaded, PagesTyped, BrowserAssumption DEF OpenLink
<1> QED
  BY <1>2, <1>3, <1>4, <1>5, <1>6 DEF Pressed

LEMMA FreshServed ==
  ASSUME TypesInv, FreshInv, NEW q, Serve(q) \/ LoseQuery(q)
  PROVE  FreshInv'
<1>1. q \in DOMAIN cache /\ IsEntry(q, cache[q]) /\ UNCHANGED <<officeVars, owed, calls>>
  BY DEF Serve, LoseQuery, TypesInv, CacheOK
<1>2. CASE Serve(q) /\ SignedIn /\ Allowed(q)
  <2>1. /\ cache' = [cache EXCEPT ![q].state = "answered", ![q].reply = Read(q)]
        /\ aged' = aged \ {q}
    BY <1>2 DEF Serve
  <2>2. /\ DOMAIN cache' = DOMAIN cache /\ \A r \in DOMAIN cache : r # q => cache'[r] = cache[r]
        /\ cache'[q].state = "answered" /\ cache'[q].reply = Read(q)
    BY <1>1, <2>1 DEF IsEntry
  <2>3. \A r \in DOMAIN cache \ {MeQ} : Read(r)' = Read(r) /\ There(r)' = There(r)
    BY <1>1, ReadKept DEF TypesInv, CacheOK, officeVars, logVars, ledgerVars
  <2>4. \A r : Stale(r, owed, calls) => Stale(r, owed', calls')
    BY <1>1 DEF Stale, Held
  <2> SUFFICES ASSUME NEW r \in DOMAIN cache' \ (aged' \cup {MeQ}), There(r)'
               PROVE  /\ cache'[r].state = "done" => cache'[r].data = Read(r)' \/ Stale(r, owed', calls')
                      /\ cache'[r].state = "answered" => cache'[r].reply = Read(r)' \/ Stale(r, owed', calls')
    BY DEF FreshInv, FreshEntries
  <2>5. CASE r = q
    BY <2>2, <2>3, <2>5
  <2>6. CASE r # q
    BY <2>1, <2>2, <2>3, <2>4, <2>6 DEF FreshInv, FreshEntries
  <2> QED
    BY <2>5, <2>6
<1>3. CASE LoseQuery(q) \/ ~(SignedIn /\ Allowed(q))
  <2>1. /\ UNCHANGED aged
        /\ \E state \in {"refused", "unauthorized"} :
             cache' = [cache EXCEPT ![q].state = state, ![q].reply = Nothing]
    BY <1>3 DEF Serve, LoseQuery
  <2>2. PICK state \in {"refused", "unauthorized"} :
          cache' = [cache EXCEPT ![q].state = state, ![q].reply = Nothing]
    BY <2>1
  <2>3. /\ DOMAIN cache' = DOMAIN cache /\ \A r \in DOMAIN cache : r # q => cache'[r] = cache[r]
        /\ cache'[q].state = state
    BY <1>1, <2>2 DEF IsEntry
  <2> QED
    BY <1>1, <2>1, <2>3, FreshKept DEF officeVars, ledgerVars
<1> QED
  BY <1>2, <1>3

LEMMA FreshForgotten ==
  ASSUME TypesInv, FreshInv, (\E q : Forget(q)) \/ Poll
  PROVE  FreshInv'
<1>1. UNCHANGED <<officeVars, calls, owed, aged>>
  BY DEF Forget, Poll
<1>2. \A q \in DOMAIN cache' : \/ q \in DOMAIN cache /\ cache'[q] = cache[q]
                               \/ cache'[q].state \notin {"done", "answered"}
  <2>1. ASSUME NEW q, cache' = Without(cache, q)
        PROVE  \A r \in DOMAIN cache' : r \in DOMAIN cache /\ cache'[r] = cache[r]
    BY <2>1 DEF Without
  <2>2. CASE Poll
    BY <2>2 DEF Poll, Asking
  <2> QED
    BY <2>1, <2>2 DEF Forget
<1>3. Held(calls') = Held(calls)
  BY <1>1 DEF Held
<1> QED
  BY <1>1, <1>2, <1>3, FreshKept DEF officeVars, ledgerVars

LEMMA FreshArrived ==
  ASSUME TypesInv, FreshInv, NEW q, Arrive(q)
  PROVE  FreshInv'
<1>1. /\ q \in DOMAIN cache /\ cache[q].state \in InFlight \ {"asked"} /\ IsEntry(q, cache[q])
      /\ UNCHANGED officeVars
  BY DEF Arrive, TypesInv, CacheOK
<1>2. CASE Reloaded(LoginPage, calls)
  BY <1>2, FreshLoaded, PagesTyped
<1>3. ASSUME NEW entries, entries = [cache EXCEPT ![q] = Ended(cache[q])],
             Settle(page, entries, calls, {}, owed), UNCHANGED aged
      PROVE  FreshInv'
  <2>1. /\ DOMAIN entries = DOMAIN cache /\ entries[q] = Ended(cache[q])
        /\ \A r \in DOMAIN cache : r # q => entries[r] = cache[r]
    BY <1>1, <1>3
  <2>2. CacheOK(entries)
    BY <1>1, <2>1, EndedTyped DEF CacheOK, TypesInv
  <2>3. /\ Ended(cache[q]).state \in {"done", "failed"}
        /\ Ended(cache[q]).state = "done" => /\ cache[q].state = "answered"
                                             /\ Ended(cache[q]).data = cache[q].reply
    BY DEF Ended
  <2>4. FreshEntries(entries, owed, calls)
    BY <2>1, <2>3 DEF FreshInv, FreshEntries
  <2>5. /\ PageOK(page) /\ (\A x \in calls : IsCall(x)) /\ OnScreenOf(calls, page.at)
        /\ OnScreenOf({}, page.at)
    BY DEF TypesInv, OnScreenOf
  <2> QED
    BY <1>1, <1>3, <2>2, <2>4, <2>5, FreshSettled
<1>4. \/ Reloaded(LoginPage, calls)
      \/ /\ \E entries \in {[cache EXCEPT ![q] = Ended(@)]} : Settle(page, entries, calls, {}, owed)
         /\ UNCHANGED aged
  BY DEF Arrive
<1> QED
  BY <1>2, <1>3, <1>4

LEMMA FreshCalled ==
  ASSUME TypesInv, FreshInv, (\E c : LoseCall(c)) \/ (\E c, d : Handling(c, d))
  PROVE  FreshInv'
<1>1. ASSUME NEW c, LoseCall(c) PROVE FreshInv'
  <2>1. PICK d : /\ c \in calls /\ calls' = (calls \ {c}) \cup {d}
                 /\ d.stage = "refused" /\ d.op = c.op /\ d.from = c.from
                 /\ UNCHANGED <<officeVars, page, cache, owed, aged, presses>>
    BY <1>1, LosesCall
  <2>2. \A x \in Held(calls) : x.stage # "sent" => \E y \in Held(calls') : y.op = x.op /\ y.stage # "sent"
    BY <2>1 DEF Held
  <2> QED
    BY <2>1, <2>2, FreshKept DEF officeVars, ledgerVars
<1>2. ASSUME NEW c, NEW d, Handling(c, d) PROVE FreshInv'
  <2>1. /\ c \in calls /\ c.stage = "sent" /\ calls' = (calls \ {c}) \cup {d}
        /\ d.stage # "sent" /\ d.op = c.op /\ d.from = c.from /\ UNCHANGED <<cache, owed>>
        /\ TablesKept(c.op)
        /\ Ages(c) \/ UNCHANGED <<logVars, rows, channels, team, aged>>
    BY <1>2 DEF Handling
  <2>2. \A x \in Held(calls) : x.stage # "sent" => \E y \in Held(calls') : y.op = x.op /\ y.stage # "sent"
    BY <2>1 DEF Held
  <2>3. CASE UNCHANGED <<logVars, rows, channels, team, aged>>
    BY <2>1, <2>2, <2>3, FreshKept
  <2>4. CASE Ages(c) /\ c.from = "gone"
    <3>1. DOMAIN cache' \subseteq aged'
      BY <2>1, <2>4 DEF Ages
    <3> QED
      BY <3>1 DEF FreshInv, FreshEntries
  <2>5. CASE Ages(c) /\ c.from # "gone"
    <3>1. UNCHANGED aged /\ d \in Held(calls')
      BY <2>1, <2>5 DEF Ages, Held
    <3>2. \A q : Stale(q, owed, calls) => Stale(q, owed', calls')
      <4>1. owed \subseteq owed'
        BY <2>1
      <4> QED
        BY <2>2, <4>1, StaleKept
    <3>3. \A q : TagOf(q) \in Invalidates(c.op) => Stale(q, owed', calls')
      BY <2>1, <3>1 DEF Stale
    <3>4. \A q \in DOMAIN cache \ {MeQ} :
            TagOf(q) \notin Invalidates(c.op) => Read(q)' = Read(q) /\ There(q)' = There(q)
      <4> SUFFICES ASSUME NEW q \in DOMAIN cache \ {MeQ}, TagOf(q) \notin Invalidates(c.op)
                   PROVE  Read(q)' = Read(q) /\ There(q)' = There(q)
        OBVIOUS
      <4>1. q \in Query
        BY DEF TypesInv, CacheOK
      <4>2. IsCall(c)
        BY <2>1 DEF TypesInv
      <4>3. TagOf(q) = "Events" => UNCHANGED events
        BY <2>1, <4>2 DEF IsCall, Invalidates, EVENT_TAGS, TablesKept, EventOps, logVars
      <4>4. TagOf(q) = "Broadcasts" => UNCHANGED rows
        BY <2>1, <4>2 DEF IsCall, Invalidates, EVENT_TAGS, TablesKept, EventOps
      <4>5. TagOf(q) = "Channels" => UNCHANGED channels
        BY <2>1, <4>2 DEF IsCall, Invalidates, TablesKept
      <4>6. TagOf(q) = "Users" => UNCHANGED team
        BY <2>1, <4>2 DEF IsCall, Invalidates, TablesKept, TeamOps
      <4> QED
        BY <4>1, <4>3, <4>4, <4>5, <4>6, ReadKept
    <3> SUFFICES ASSUME NEW q \in DOMAIN cache' \ (aged' \cup {MeQ}), There(q)'
                 PROVE  /\ cache'[q].state = "done" => cache'[q].data = Read(q)' \/ Stale(q, owed', calls')
                        /\ cache'[q].state = "answered" => cache'[q].reply = Read(q)' \/ Stale(q, owed', calls')
      BY DEF FreshInv, FreshEntries
    <3>5. CASE TagOf(q) \in Invalidates(c.op)
      BY <3>3, <3>5
    <3>6. CASE TagOf(q) \notin Invalidates(c.op)
      BY <2>1, <3>1, <3>2, <3>4, <3>6 DEF FreshInv, FreshEntries
    <3> QED
      BY <3>5, <3>6
  <2> QED
    BY <2>1, <2>3, <2>4, <2>5
<1> QED
  BY <1>1, <1>2

LEMMA FreshMeanwhile ==
  ASSUME TypesInv, FreshInv, Meanwhile
  PROVE  FreshInv'
<1>1. UNCHANGED <<page, cache, calls, owed>>
  BY DEF Meanwhile, Elsewhere, Announcement, Delivery, Behind
<1>2. CASE Elsewhere
  <2>1. DOMAIN cache' \subseteq aged'
    BY <1>1, <1>2 DEF Elsewhere
  <2> QED
    BY <2>1 DEF FreshInv, FreshEntries
<1>3. ASSUME NEW k \in Key, Announcement(k) \/ Delivery(k) PROVE FreshInv'
  <2>1. UNCHANGED <<logVars, channels, team>> /\ aged' = aged \cup {BroadcastsQ}
    BY <1>3 DEF Announcement, Delivery, Announce, Deliver, Behind
  <2>2. \A q \in DOMAIN cache \ {MeQ, BroadcastsQ} : Read(q)' = Read(q) /\ There(q)' = There(q)
    <3> SUFFICES ASSUME NEW q \in DOMAIN cache \ {MeQ, BroadcastsQ}
                 PROVE  Read(q)' = Read(q) /\ There(q)' = There(q)
      OBVIOUS
    <3>1. q \in Query
      BY DEF TypesInv, CacheOK
    <3>2. TagOf(q) # "Broadcasts"
      BY <3>1, TagsOf, QueryCases, QueryHeads
    <3> QED
      BY <2>1, <3>1, <3>2, ReadKept DEF logVars
  <2>3. \A q : Stale(q, owed, calls) => Stale(q, owed', calls')
    BY <1>1 DEF Stale, Held
  <2> SUFFICES ASSUME NEW q \in DOMAIN cache' \ (aged' \cup {MeQ}), There(q)'
               PROVE  /\ cache'[q].state = "done" => cache'[q].data = Read(q)' \/ Stale(q, owed', calls')
                      /\ cache'[q].state = "answered" => cache'[q].reply = Read(q)' \/ Stale(q, owed', calls')
    BY DEF FreshInv, FreshEntries
  <2> QED
    BY <1>1, <2>1, <2>2, <2>3 DEF FreshInv, FreshEntries
<1> QED
  BY <1>2, <1>3 DEF Meanwhile

LEMMA FreshEnded ==
  ASSUME TypesInv, FreshInv, NEW c, NEW p, NEW more, Ending(c, p, more)
  PROVE  FreshInv'
<1>1. c \in calls /\ c.stage # "sent" /\ Finish(c, p, more) /\ PageOK(p) /\ FollowedBy(c, p, more)
      /\ UNCHANGED officeVars
  BY Finished DEF Ending
<1>2. CASE c.from = "gone" /\ calls' = calls \ {c} /\ UNCHANGED <<page, cache, owed, aged>>
  <2>1. Held(calls') = Held(calls)
    BY <1>2 DEF Held
  <2> QED
    BY <1>1, <1>2, <2>1, FreshKept DEF officeVars, ledgerVars
<1>3. CASE Reloaded(LoginPage, calls \ {c})
  BY <1>3, FreshLoaded, PagesTyped
<1>4. CASE UNCHANGED aged /\ Settle(p, cache, calls \ {c}, more, owed \cup Invalidates(c.op))
  <2>1. \A q : Stale(q, owed, calls) => Stale(q, owed \cup Invalidates(c.op), calls \ {c})
    BY DEF Stale, Held
  <2>2. FreshEntries(cache, owed \cup Invalidates(c.op), calls \ {c})
    BY <2>1 DEF FreshInv, FreshEntries
  <2>3. (\A x \in more : IsCall(x)) /\ OnScreenOf(more, page.at)
    BY <1>1 DEF FollowedBy, TypesInv, OnScreenOf, ScreenOf, Saving, EventOps, AvisosOps, TeamOps
  <2>4. CacheOK(cache) /\ (\A x \in calls \ {c} : IsCall(x)) /\ OnScreenOf(calls \ {c}, page.at)
    BY DEF TypesInv, OnScreenOf
  <2> QED
    BY <1>1, <1>4, <2>2, <2>3, <2>4, FreshSettled
<1> QED
  BY <1>1, <1>2, <1>3, <1>4, Finished

LEMMA FreshStart == PanelInit => FreshInv
<1> SUFFICES ASSUME PanelInit PROVE FreshInv
  OBVIOUS
<1>1. \/ \A q \in DOMAIN cache :
           cache[q] = [state |-> "done", data |-> Read(q), reply |-> Nothing]
      \/ cache = [q \in {MeQ} |-> Asking(Nothing)]
  BY FirstLoad
<1>2. CASE cache = [q \in {MeQ} |-> Asking(Nothing)]
  BY <1>2 DEF FreshInv, FreshEntries
<1>3. CASE \A q \in DOMAIN cache :
             cache[q] = [state |-> "done", data |-> Read(q), reply |-> Nothing]
  BY <1>3 DEF FreshInv, FreshEntries
<1> QED
  BY <1>1, <1>2, <1>3

LEMMA FreshTaken ==
  ASSUME TypesInv, FreshInv, [PanelNext]_panelVars
  PROVE  FreshInv'
<1>1. CASE UNCHANGED panelVars
  BY <1>1, FreshKept DEF panelVars, pageVars, officeVars, ledgerVars, Held
<1>2. ASSUME NEW c, SignsOut(c) PROVE FreshInv'
  BY <1>2, FreshLoaded, PagesTyped DEF SignsOut
<1>3. CASE PanelNext
  BY <1>2, <1>3, Steps, FreshPressed, FreshServed, FreshForgotten, FreshArrived, FreshCalled, FreshEnded,
     FreshMeanwhile
<1> QED
  BY <1>1, <1>3

LEMMA FreshMeans == TypesInv /\ FreshInv => QuietIsFresh
<1> SUFFICES ASSUME TypesInv, FreshInv, AtRest,
                    NEW q \in DOMAIN cache \ (aged \cup {MeQ}), cache[q].state = "done", Allowed(q)
             PROVE  cache[q].data = Read(q)
  BY DEF QuietIsFresh
<1>1. ~Stale(q, owed, calls)
  BY DEF AtRest, Quiet, Stale, Held
<1>2. There(q)
  BY DEF Allowed, There
<1> QED
  BY <1>1, <1>2 DEF FreshInv, FreshEntries

(***************************************************************************)
(* Once nothing is pending, every answer the panel shows is what the       *)
(* server would say now: each mutation of api.ts invalidates every query   *)
(* it can make stale, and an invalidation put off is never forgotten.      *)
(***************************************************************************)
THEOREM RestIsFresh == PanelSpec => []QuietIsFresh
<1>1. PanelInit => TypesInv /\ FreshInv
  BY InitTypes, FreshStart
<1>2. TypesInv /\ FreshInv /\ [PanelNext]_panelVars => (TypesInv /\ FreshInv)'
  BY TypesStep, FreshTaken
<1> QED
  BY <1>1, <1>2, FreshMeans, PTL DEF PanelSpec

-----------------------------------------------------------------------------
(***************************************************************************)
(* A visit of the editor.  At most one saving call of the screen is under  *)
(* way.  Until an error is shown after it, what the visit has created is   *)
(* nothing, or the one event whose saving is still under way: handled, or  *)
(* already followed by the call that publishes it.  And a list opened on   *)
(* an event is on the month that event was saved in.                       *)
(***************************************************************************)
Savings(cs) == {c \in cs : c.from = "screen" /\ c.op \in Saving}
OneSaving(cs) == \A c, d \in Savings(cs) : c = d
MadeOnce(p, cs) ==
  p.at = "editor" /\ ~p.stumbled =>
    \/ p.made = {}
    \/ \E e \in Event : p.made = {e} /\ \E c \in Savings(cs) : c.op # "create" \/ c.stage # "sent"
BackInMonth(p) == p.at = "list" /\ p.back # Nothing => MonthOf[p.back.slot] = p.month

FormInv == OneSaving(calls) /\ MadeOnce(page, calls) /\ BackInMonth(page)

\* Where the page shown next comes from.
LEMMA ShownFrom ==
  ASSUME TypesInv, NEW p, PageOK(p), NEW c, CacheOK(c),
         NEW cs, \A x \in cs : IsCall(x), OnScreenOf(cs, page.at), Show(p, c, cs)
  PROVE  /\ page'.at = "editor" => /\ p.at = "editor" /\ page'.id = p.id /\ page'.made = p.made
                                   /\ page'.stumbled = p.stumbled
                                   /\ p.form # Nothing => page' = p
         /\ page'.at = "list" => page' = p \/ page' = ListPage(ThisMonth, Nothing)
<1>1. page' = Seeded(Kept(Routed(p, c), c), c) /\ page'.at = Routed(p, c).at
  BY Shown DEF TypesInv
<1>2. Routed(p, c) \in {p, LoginPage, ListPage(ThisMonth, Nothing)}
  BY DEF Routed
<1>3. LoginPage.at = "login" /\ ListPage(ThisMonth, Nothing).at = "list"
  BY DEF LoginPage, ListPage
<1>4. PageOK(Routed(p, c)) /\ CacheOK(c)
  BY RoutedTyped
<1>5. CASE page'.at = "editor"
  <2>1. Routed(p, c) = p /\ p.at = "editor"
    BY <1>1, <1>2, <1>3, <1>5
  <2>2. Kept(p, c) = p
    BY <2>1, KeptTyped
  <2>3. page' = Seeded(p, c)
    BY <1>1, <2>1, <2>2
  <2> QED
    BY <1>5, <2>1, <2>3, SeededTyped
<1>6. CASE page'.at = "list"
  <2> DEFINE r == Routed(p, c)
  <2>1. r.at = "list" /\ PageOK(r)
    BY <1>1, <1>4, <1>6
  <2> HIDE DEF r
  <2>2. Kept(r, c) = r
    BY <2>1, KeptTyped
  <2>3. Seeded(r, c) = r
    BY <2>1, SeededTyped
  <2>4. page' = r
    BY <1>1, <2>2, <2>3 DEF r
  <2> QED
    BY <1>2, <1>3, <1>6, <2>1, <2>4 DEF r
<1> QED
  BY <1>5, <1>6

LEMMA FormDrawn ==
  ASSUME TypesInv, NEW p, PageOK(p), NEW c, CacheOK(c),
         NEW cs, \A x \in cs : IsCall(x), OnScreenOf(cs, page.at), Show(p, c, cs),
         OneSaving(cs), BackInMonth(p),
         p.at = "editor" => p.made = {} \/ (page.at = "editor" /\ p.id = page.id /\ MadeOnce(p, cs))
  PROVE  FormInv'
<1>1. /\ Moved(calls', cs)
      /\ Here(page') = Here(page) /\ page.at = "editor" => calls' = cs
  BY Shown DEF TypesInv
<1>2. /\ page'.at = "editor" => /\ p.at = "editor" /\ page'.id = p.id /\ page'.made = p.made
                                /\ page'.stumbled = p.stumbled
      /\ page'.at = "list" => page' = p \/ page' = ListPage(ThisMonth, Nothing)
  BY ShownFrom
<1>3. OneSaving(calls')
  <2>1. Savings(calls') \subseteq Savings(cs)
    BY <1>1 DEF Moved, Savings
  <2> QED
    BY <2>1 DEF OneSaving
<1>4. BackInMonth(page')
  <2>1. ListPage(ThisMonth, Nothing).back = Nothing
    BY DEF ListPage
  <2> QED
    BY <1>2, <2>1 DEF BackInMonth
<1>5. MadeOnce(page', calls')
  <2> SUFFICES ASSUME page'.at = "editor", p.made # {}
               PROVE  MadeOnce(page', calls')
    BY <1>2 DEF MadeOnce
  <2>1. page.at = "editor" /\ p.id = page.id /\ MadeOnce(p, cs)
    BY <1>2
  <2>2. calls' = cs
    BY <1>1, <1>2, <2>1 DEF Here
  <2> QED
    BY <1>2, <2>1, <2>2 DEF MadeOnce
<1> QED
  BY <1>3, <1>4, <1>5 DEF FormInv

LEMMA FormLoaded ==
  ASSUME TypesInv, NEW p, PageOK(p), NEW cs \in SUBSET calls, Reloaded(p, cs),
         p.at # "editor", p.at = "list" => p.back = Nothing
  PROVE  FormInv'
<1>1. \A x \in cs : IsCall(x)
  BY DEF TypesInv
<1>2. page' = p /\ \A x \in calls' : x.from = "gone"
  BY <1>1, Loaded
<1>3. Savings(calls') = {}
  BY <1>2 DEF Savings
<1> QED
  BY <1>2, <1>3 DEF FormInv, OneSaving, MadeOnce, BackInMonth

\* What changes neither the form's account of itself nor the saving calls.
LEMMA FormKept ==
  ASSUME FormInv, page'.at = page.at, page.at = "list" => UNCHANGED page,
         page.at = "editor" => UNCHANGED <<page.made, page.stumbled>>,
         OneSaving(calls'),
         \A c \in Savings(calls) : \E d \in Savings(calls') :
           (c.op # "create" \/ c.stage # "sent") => (d.op # "create" \/ d.stage # "sent")
  PROVE  FormInv'
<1>1. MadeOnce(page', calls')
  <2> SUFFICES ASSUME page'.at = "editor", ~page'.stumbled, page'.made # {}
               PROVE  \E e \in Event : page'.made = {e} /\
                        \E c \in Savings(calls') : c.op # "create" \/ c.stage # "sent"
    BY DEF MadeOnce
  <2>1. page.at = "editor" /\ page'.made = page.made /\ ~page.stumbled
    OBVIOUS
  <2> QED
    BY <2>1 DEF FormInv, MadeOnce
<1>2. BackInMonth(page')
  BY DEF FormInv, BackInMonth
<1> QED
  BY <1>1, <1>2 DEF FormInv

LEMMA FormPressed ==
  ASSUME TypesInv, FormInv, Pressed \/ OpenLink
  PROVE  FormInv'
<1>1. Drawn => /\ page'.at = page.at
               /\ page.at = "list" => UNCHANGED page
               /\ page.at = "editor" => UNCHANGED <<page.made, page.stumbled>>
  BY DEF Drawn
<1>2. CASE Typing
  BY <1>1, <1>2, FormKept DEF Typing, FormInv, OneSaving, Savings
<1>3. CASE Closing
  <2>1. Savings(calls') \subseteq Savings(calls)
    BY <1>3 DEF Closing, Moved, Savings
  <2>2. Savings(calls) \subseteq Savings(calls')
    BY <1>3 DEF Closing, Savings, Saving
  <2>3. OneSaving(calls')
    BY <2>1 DEF FormInv, OneSaving
  <2> QED
    BY <1>1, <1>3, <2>2, <2>3, FormKept DEF Closing
<1>4. ASSUME NEW call, Sending(call) PROVE FormInv'
  <2>1. /\ calls' = calls \cup {call} /\ (call.op \in Saving => ~Busy) /\ Drawn
    BY <1>4 DEF Sending
  <2>2. Busy <=> Savings(calls) # {}
    BY DEF Busy, Loading, Savings, Saving
  <2>3. OneSaving(calls')
    BY <2>1, <2>2 DEF FormInv, OneSaving, Savings
  <2>4. Savings(calls) \subseteq Savings(calls')
    BY <2>1 DEF Savings
  <2> QED
    BY <1>1, <2>1, <2>3, <2>4, FormKept
<1>5. ASSUME NEW p, Turning(p) PROVE FormInv'
  <2>1. /\ PageOK(p) /\ CacheOK(cache) /\ (\A x \in calls : IsCall(x)) /\ OnScreenOf(calls, page.at)
        /\ Show(p, cache, calls)
        /\ p.at = "list" => p.back = Nothing
        /\ p.at = "editor" => p.made = {}
    BY <1>5 DEF TypesInv, Turning, Turn
  <2>2. BackInMonth(p) /\ OneSaving(calls)
    BY <2>1 DEF BackInMonth, FormInv
  <2> QED
    BY <2>1, <2>2, FormDrawn
<1>6. CASE OpenLink
  <2>1. /\ PageOK(ListPage(ThisMonth, Nothing)) /\ Reloaded(ListPage(ThisMonth, Nothing), calls)
        /\ ListPage(ThisMonth, Nothing).at = "list" /\ ListPage(ThisMonth, Nothing).back = Nothing
    BY <1>6, PagesTyped, BrowserAssumption DEF OpenLink, ListPage
  <2> QED
    BY <2>1, FormLoaded
<1> QED
  BY <1>2, <1>3, <1>4, <1>5, <1>6 DEF Pressed

\* A call c that has become d, of the same screen.
LEMMA OneSavingKept ==
  ASSUME OneSaving(calls), NEW c \in calls, NEW d, d.op = c.op, d.from = c.from,
         calls' = (calls \ {c}) \cup {d}
  PROVE  /\ OneSaving(calls')
         /\ c \in Savings(calls) => d \in Savings(calls')
         /\ \A x \in Savings(calls) : x # c => x \in Savings(calls')
  BY DEF OneSaving, Savings

LEMMA FormCalled ==
  ASSUME TypesInv, FormInv, (\E c : LoseCall(c)) \/ (\E c, d : Handling(c, d))
  PROVE  FormInv'
<1>1. ASSUME NEW c, LoseCall(c) PROVE FormInv'
  <2>1. PICK d : /\ c \in calls /\ calls' = (calls \ {c}) \cup {d}
                 /\ d.stage = "refused" /\ d.op = c.op /\ d.from = c.from /\ UNCHANGED page
    BY <1>1, LosesCall
  <2>2. /\ OneSaving(calls')
        /\ c \in Savings(calls) => d \in Savings(calls')
        /\ \A x \in Savings(calls) : x # c => x \in Savings(calls')
    BY <2>1, OneSavingKept DEF FormInv
  <2> QED
    BY <2>1, <2>2, FormKept
<1>2. ASSUME NEW c, NEW d, Handling(c, d) PROVE FormInv'
  <2>1. /\ c \in calls /\ c.stage = "sent" /\ calls' = (calls \ {c}) \cup {d}
        /\ d.stage # "sent" /\ d.op = c.op /\ d.from = c.from
    BY <1>2 DEF Handling
  <2>2. /\ OneSaving(calls')
        /\ c \in Savings(calls) => d \in Savings(calls')
        /\ \A x \in Savings(calls) : x # c => x \in Savings(calls')
    BY <2>1, OneSavingKept DEF FormInv
  <2>3. CASE UNCHANGED page
    BY <2>1, <2>2, <2>3, FormKept
  <2>4. ASSUME c.op = "create", c.from = "screen", NEW e \in Event,
               page' = [page EXCEPT !.made = @ \cup {e}]
        PROVE  FormInv'
    <3>1. page.at = "editor"
      BY <2>1, <2>4 DEF TypesInv, OnScreenOf, ScreenOf, EventOps
    <3>2. page \in AtEditor
      BY <3>1, EditorKnows
    <3>3. page'.at = "editor" /\ page'.made = page.made \cup {e} /\ page'.stumbled = page.stumbled
      BY <2>4, <3>2 DEF AtEditor
    <3>4. c \in Savings(calls)
      BY <2>1, <2>4 DEF Savings, Saving
    <3>5. ~page.stumbled => page.made = {}
      BY <2>1, <2>4, <3>1, <3>4 DEF FormInv, MadeOnce, OneSaving
    <3>6. MadeOnce(page', calls')
      BY <2>1, <2>2, <3>3, <3>4, <3>5 DEF MadeOnce
    <3> QED
      BY <2>2, <3>3, <3>6 DEF FormInv, BackInMonth
  <2> QED
    BY <1>2, <2>3, <2>4 DEF Handling
<1> QED
  BY <1>1, <1>2

\* Queries leave the page and its calls alone, until an answer arrives.
LEMMA FormAsked ==
  ASSUME FormInv, UNCHANGED <<page, calls>>
  PROVE  FormInv'
  BY FormKept DEF FormInv

LEMMA FormArrived ==
  ASSUME TypesInv, FormInv, NEW q, Arrive(q)
  PROVE  FormInv'
<1>1. CASE Reloaded(LoginPage, calls)
  <2>1. PageOK(LoginPage) /\ LoginPage.at = "login"
    BY PagesTyped DEF LoginPage
  <2> QED
    BY <1>1, <2>1, FormLoaded
<1>2. CASE ~Reloaded(LoginPage, calls)
  <2>1. PICK entries \in {[cache EXCEPT ![q] = Ended(@)]} : Settle(page, entries, calls, {}, owed)
    BY <1>2 DEF Arrive
  <2>2. CacheOK(entries)
    BY <2>1, EndedTyped DEF Arrive, CacheOK, TypesInv
  <2>3. PICK fresh : CacheOK(fresh) /\ Show(page, fresh, calls \cup {})
    BY <2>1, <2>2, Settled
  <2>4. calls \cup {} = calls
    OBVIOUS
  <2> QED
    BY <2>3, <2>4, FormDrawn DEF TypesInv, FormInv
<1> QED
  BY <1>1, <1>2

LEMMA FormEnded ==
  ASSUME TypesInv, FormInv, NEW c, NEW p, NEW more, Ending(c, p, more)
  PROVE  FormInv'
<1>1. c \in calls /\ c.stage # "sent" /\ Finish(c, p, more) /\ PageOK(p) /\ Turned(c, p)
      /\ FollowedBy(c, p, more)
  BY DEF Ending
<1>2. CASE c.from = "gone" /\ calls' = calls \ {c} /\ UNCHANGED <<page, cache, owed, aged>>
  <2>1. Savings(calls') = Savings(calls)
    BY <1>2 DEF Savings
  <2> QED
    BY <1>2, <2>1, FormKept DEF FormInv, OneSaving
<1>3. CASE Reloaded(LoginPage, calls \ {c})
  <2>1. PageOK(LoginPage) /\ LoginPage.at = "login"
    BY PagesTyped DEF LoginPage
  <2> QED
    BY <1>3, <2>1, FormLoaded
<1>4. CASE UNCHANGED aged /\ Settle(p, cache, calls \ {c}, more, owed \cup Invalidates(c.op))
  <2> DEFINE cs == (calls \ {c}) \cup more
  <2>1. CacheOK(cache)
    BY DEF TypesInv
  <2>2. PICK fresh : CacheOK(fresh) /\ Show(p, fresh, cs)
    BY <1>4, <2>1, Settled
  <2>3. more = {} \/ (\E d : /\ more = {d} /\ IsCall(d) /\ d.op = "publish" /\ d.stage = "sent"
                              /\ d.from = c.from /\ c.op \in Saving)
    BY <1>1 DEF FollowedBy
  <2>4. (\A x \in cs : IsCall(x)) /\ OnScreenOf(cs, page.at)
    BY <1>1, <2>3 DEF TypesInv, OnScreenOf, ScreenOf, Saving, EventOps, EntryOps, AvisosOps, TeamOps
  <2>5. OneSaving(cs)
    BY <1>1, <2>3 DEF FormInv, OneSaving, Savings
  <2>6. BackInMonth(p)
    BY <1>1 DEF FormInv, BackInMonth, Turned
  <2>7. ASSUME p.at = "editor" PROVE page.at = "editor" /\ p.id = page.id /\ MadeOnce(p, cs)
    <3>1. page.at = "editor" /\ p.id = page.id /\ p.made = page.made
          /\ p.stumbled = IF c.op \in Saving /\ c.from = "screen" /\ c.stage # "ok"
                          THEN page.made # {} ELSE page.stumbled
      BY <1>1, <2>7 DEF Turned
    <3> SUFFICES ASSUME ~p.stumbled, p.made # {}
                 PROVE  \E e \in Event : p.made = {e} /\
                          \E x \in Savings(cs) : x.op # "create" \/ x.stage # "sent"
      BY <3>1 DEF MadeOnce
    <3>2. ~(c.op \in Saving /\ c.from = "screen" /\ c.stage # "ok") /\ ~page.stumbled
      BY <3>1
    <3>3. PICK e \in Event, x \in Savings(calls) : p.made = {e} /\ (x.op # "create" \/ x.stage # "sent")
      BY <3>1, <3>2 DEF FormInv, MadeOnce
    <3>4. CASE x # c
      BY <3>3, <3>4 DEF Savings
    <3>5. CASE x = c
      <4>1. c.op \in Saving /\ c.from = "screen" /\ c.stage = "ok"
        BY <3>2, <3>5 DEF Savings
      <4>2. PICK d : more = {d} /\ d.op = "publish" /\ d.from = c.from
        BY <1>1, <2>7, <4>1 DEF FollowedBy
      <4>3. d \in Savings(cs) /\ d.op # "create"
        BY <4>1, <4>2 DEF Savings, Saving
      <4> QED
        BY <3>3, <4>3
    <3> QED
      BY <3>4, <3>5
  <2> HIDE DEF cs
  <2> QED
    BY <1>1, <2>2, <2>4, <2>5, <2>6, <2>7, FormDrawn
<1> QED
  BY <1>1, <1>2, <1>3, <1>4, Finished

LEMMA FormStart == PanelInit => FormInv
<1> SUFFICES ASSUME PanelInit PROVE FormInv
  OBVIOUS
<1>1. calls = {}
  BY FirstLoad
<1>2. PICK p : /\ PageOK(p) /\ Fresh(p)
               /\ \/ page = Seeded(p, cache) /\ CacheOK(cache)
                  \/ page = p
  BY FirstLoad
<1>3. /\ page.at = "editor" => page.made = {}
      /\ page.at = "list" => page.back = Nothing
  BY <1>2, SeededTyped DEF Fresh
<1> QED
  BY <1>1, <1>3 DEF FormInv, OneSaving, MadeOnce, BackInMonth, Savings

LEMMA FormTaken ==
  ASSUME TypesInv, FormInv, [PanelNext]_panelVars
  PROVE  FormInv'
<1>1. CASE UNCHANGED panelVars
  BY <1>1, FormAsked DEF panelVars, pageVars
<1>2. ASSUME NEW c, SignsOut(c) PROVE FormInv'
  <2>1. PageOK(LoginPage) /\ LoginPage.at = "login"
    BY PagesTyped DEF LoginPage
  <2> QED
    BY <1>2, <2>1, FormLoaded DEF SignsOut
<1>3. ASSUME NEW q, Serve(q) \/ LoseQuery(q) \/ Forget(q) PROVE FormInv'
  BY <1>3, FormAsked DEF Serve, LoseQuery, Forget
<1>4. CASE Poll
  BY <1>4, FormAsked DEF Poll
<1>5. CASE Meanwhile
  <2>1. UNCHANGED <<page, calls>>
    BY <1>5 DEF Meanwhile, Elsewhere, Announcement, Delivery, Behind
  <2> QED
    BY <2>1, FormAsked
<1>6. CASE PanelNext
  BY <1>2, <1>3, <1>4, <1>5, <1>6, Steps, FormPressed, FormArrived, FormCalled, FormEnded
<1> QED
  BY <1>1, <1>6

LEMMA FormMeans == TypesInv /\ FormInv => OneEventPerForm
<1> SUFFICES ASSUME TypesInv, FormInv, page.at = "editor", Cardinality(page.made) > 1, ~page.stumbled
             PROVE  FALSE
  BY DEF OneEventPerForm
<1>1. page.made = {} \/ \E e \in Event : page.made = {e}
  BY DEF FormInv, MadeOnce
<1>2. Cardinality(page.made) \in {0, 1}
  BY <1>1, FS_EmptySet, FS_Singleton
<1> QED
  BY <1>2

LEMMA ListMeans == TypesInv /\ FormInv /\ QuietIsFresh => SavedIsListed
<1> SUFFICES ASSUME TypesInv, FormInv, QuietIsFresh, page.at = "list", page.back # Nothing,
                    AtRest, ListShown, EventsQ(page.month) \notin aged,
                    page.back.id \in DOMAIN events, events[page.back.id].slot = page.back.slot
             PROVE  \E v \in Listed : v.id = page.back.id
  BY DEF SavedIsListed
<1> DEFINE q == EventsQ(page.month)
<1>1. q \in DOMAIN cache /\ cache[q].state # "failed"
  BY DEF ListShown, Seen, Failed
<1>2. cache[q].state = "done"
  BY <1>1 DEF AtRest, Quiet, TypesInv, CacheOK, IsEntry
<1>3. page.month \in Months
  BY PageKinds DEF TypesInv, PageOK, AtList
<1>4. q[1] = "events" /\ q[2] = page.month /\ q # MeQ
  BY QueryHeads DEF EventsQ, MeQ
<1>5. Allowed(q)
  BY <1>4 DEF Allowed
<1>6. cache[q].data = Read(q)
  BY <1>1, <1>2, <1>4, <1>5 DEF QuietIsFresh
<1>7. Read(q) = {View(e) : e \in {d \in DOMAIN events : MonthOf[events[d].slot] = page.month}}
  BY <1>4 DEF Read
<1>8. MonthOf[events[page.back.id].slot] = page.month
  BY DEF FormInv, BackInMonth
<1>9. View(page.back.id) \in Listed
  BY <1>1, <1>6, <1>7, <1>8 DEF Listed, Seen
<1>10. View(page.back.id).id = page.back.id
  BY DEF View
<1> QED
  BY <1>9, <1>10

(***************************************************************************)
(* One visit of the new-event screen makes one event however often its     *)
(* buttons are pressed, until an error is shown: while a save is under way *)
(* a second one is not begun (EventoEditor.tsx, busy and save).            *)
(***************************************************************************)
THEOREM OneEventMade == PanelSpec => []OneEventPerForm
<1>1. PanelInit => TypesInv /\ FormInv
  BY InitTypes, FormStart
<1>2. TypesInv /\ FormInv /\ [PanelNext]_panelVars => (TypesInv /\ FormInv)'
  BY TypesStep, FormTaken
<1> QED
  BY <1>1, <1>2, FormMeans, PTL DEF PanelSpec

(***************************************************************************)
(* The list opened after a save shows the event that was saved: the editor *)
(* goes back to the month of the event it saved, and the list is read      *)
(* again after the save (EventoEditor.tsx, back; api.ts, EVENT_TAGS).      *)
(***************************************************************************)
THEOREM SavedAreListed == PanelSpec => []SavedIsListed
<1>1. PanelInit => TypesInv /\ FormInv
  BY InitTypes, FormStart
<1>2. TypesInv /\ FormInv /\ [PanelNext]_panelVars => (TypesInv /\ FormInv)'
  BY TypesStep, FormTaken
<1> QED
  BY <1>1, <1>2, ListMeans, RestIsFresh, PTL DEF PanelSpec

-----------------------------------------------------------------------------
(***************************************************************************)
(* A delete.  What others had done when it was confirmed they have done    *)
(* since.  While nobody has pressed anything after it and nobody else has  *)
(* done anything, a delete confirmed at rest is the only call there is,    *)
(* and the server has the event as the modal showed it.                    *)
(***************************************************************************)
Undisturbed(c, cs) ==
  c.body.rest /\ others = c.body.others0 /\ presses = c.n + 1 =>
    /\ \A d \in cs : d = c
    /\ c.on \in DOMAIN events => events[c.on].published = c.body.published

DeleteInv ==
  \A c \in calls : /\ c.n < presses
                   /\ c.op = "delete" => c.body.others0 <= others /\ Undisturbed(c, calls)

\* d is the call c, or follows it.
After(d, c) == /\ d.n = c.n
               /\ d.op = "delete" => c.op = "delete" /\ d.on = c.on /\ d.body = c.body

\* What she does not press, and others do not do.
LEMMA DeleteKept ==
  ASSUME TypesInv, DeleteInv, UNCHANGED <<presses, others>>,
         \A d \in calls' : \E c \in calls : After(d, c),
         (\A c, d \in calls : c = d) => \A c, d \in calls' : c = d,
         \A c \in calls : c.op = "delete" /\ (\A d \in calls : d = c) =>
           \A e \in DOMAIN events' : e \in DOMAIN events /\ events'[e].published = events[e].published
  PROVE  DeleteInv'
<1> SUFFICES ASSUME NEW d \in calls'
             PROVE  /\ d.n < presses'
                    /\ d.op = "delete" => d.body.others0 <= others' /\ Undisturbed(d, calls)'
  BY DEF DeleteInv
<1>1. PICK c \in calls : After(d, c)
  OBVIOUS
<1>2. d.n < presses'
  BY <1>1 DEF DeleteInv, After
<1>3. ASSUME d.op = "delete" PROVE d.body.others0 <= others' /\ Undisturbed(d, calls)'
  <2>1. c.op = "delete" /\ d.on = c.on /\ d.body = c.body /\ d.n = c.n
    BY <1>1, <1>3 DEF After
  <2>2. c.body.others0 <= others /\ Undisturbed(c, calls)
    BY <2>1 DEF DeleteInv
  <2> SUFFICES ASSUME d.body.rest, others' = d.body.others0, presses' = d.n + 1
               PROVE  /\ \A x \in calls' : x = d
                      /\ d.on \in DOMAIN events' => events'[d.on].published = d.body.published
    BY <2>1, <2>2 DEF Undisturbed
  <2>3. /\ \A x \in calls : x = c
        /\ c.on \in DOMAIN events => events[c.on].published = c.body.published
    BY <2>1, <2>2 DEF Undisturbed
  <2> QED
    BY <2>1, <2>3
<1> QED
  BY <1>2, <1>3

\* A press disturbs every delete before it.
LEMMA Disturbs ==
  ASSUME TypesInv, DeleteInv, others' = others, presses' = presses + 1, NEW d,
         \E c \in calls : After(d, c)
  PROVE  /\ d.n < presses'
         /\ d.op = "delete" => d.body.others0 <= others' /\ Undisturbed(d, calls)'
<1>1. PICK c \in calls : After(d, c)
  OBVIOUS
<1>2. c.n \in Nat /\ presses \in Nat /\ c.n < presses
  BY DEF TypesInv, IsCall, DeleteInv
<1>3. d.n = c.n
  BY <1>1 DEF After
<1>4. d.n < presses' /\ presses' # d.n + 1
  BY <1>2, <1>3
<1>5. d.op = "delete" => d.body.others0 <= others'
  BY <1>1 DEF DeleteInv, After
<1> QED
  BY <1>4, <1>5 DEF Undisturbed

\* What the modal shows of an event when the panel is at rest is so.
LEMMA ModalIsTrue ==
  ASSUME TypesInv, FreshInv, page.at = "editor", Current # Nothing, AtRest,
         EventQ(page.id) \notin aged, ~Failed(cache, EventQ(page.id)), page.id \in DOMAIN events
  PROVE  Published = events[page.id].published
<1> DEFINE q == EventQ(page.id)
<1>1. page.id \in Event /\ Current = Seen(cache, q)
  BY EditorKnows
<1>2. q[1] = "event" /\ q[2] = page.id /\ q # MeQ
  BY <1>1, QueryHeads DEF MeQ
<1>3. q \in DOMAIN cache /\ cache[q].state # "failed" /\ Current = cache[q].data
  BY <1>1 DEF Seen, Failed
<1>4. cache[q].state = "done"
  BY <1>3 DEF AtRest, Quiet, TypesInv, CacheOK, IsEntry
<1>5. There(q) /\ ~Stale(q, owed, calls)
  BY <1>2 DEF There, AtRest, Quiet, Stale, Held
<1>6. cache[q].data = Read(q)
  BY <1>2, <1>3, <1>4, <1>5 DEF FreshInv, FreshEntries
<1>7. Read(q) = View(page.id)
  BY <1>2 DEF Read
<1>8. Current = View(page.id)
  BY <1>3, <1>6, <1>7
<1>9. Published = View(page.id).row.published
  <2>1. View(page.id).row.published \in BOOLEAN
    BY DEF View, TypesInv, OfficeTypeOK, LogTypeOK, IsTable, EventRow
  <2> QED
    BY <1>8, <2>1 DEF Published
<1> QED
  BY <1>9 DEF View

LEMMA DeletePressed ==
  ASSUME TypesInv, FreshInv, DeleteInv, Pressed \/ OpenLink
  PROVE  DeleteInv'
<1>1. others' = others /\ presses' = presses + 1
  BY DEF Pressed, OpenLink, Typing, Closing, Sending, Turning, Turn, Aside, Pressing, officeVars
<1>2. CASE \A d \in calls' : \E c \in calls : After(d, c)
  <2>1. \A d \in calls' : /\ d.n < presses'
                          /\ d.op = "delete" => d.body.others0 <= others' /\ Undisturbed(d, calls)'
    BY <1>1, <1>2, Disturbs
  <2> QED
    BY <2>1 DEF DeleteInv
<1>3. ASSUME \A d \in calls' : \E c \in calls : SameCall(d, c)
      PROVE  DeleteInv'
  BY <1>2, <1>3 DEF SameCall, After
<1>4. CASE Typing
  BY <1>2, <1>4 DEF Typing, After
<1>5. CASE Closing
  BY <1>3, <1>5 DEF Closing, Moved
<1>6. ASSUME NEW p, Turning(p) PROVE DeleteInv'
  <2>1. /\ PageOK(p) /\ CacheOK(cache) /\ (\A x \in calls : IsCall(x)) /\ OnScreenOf(calls, page.at)
        /\ Show(p, cache, calls) /\ PageOK(page)
    BY <1>6 DEF TypesInv, Turning, Turn
  <2>2. Moved(calls', calls)
    BY <2>1, Shown
  <2> QED
    BY <1>3, <2>2 DEF Moved
<1>7. CASE OpenLink
  <2>1. /\ PageOK(ListPage(ThisMonth, Nothing)) /\ Reloaded(ListPage(ThisMonth, Nothing), calls)
        /\ \A x \in calls : IsCall(x)
    BY <1>7, PagesTyped, BrowserAssumption DEF OpenLink, TypesInv
  <2>2. \A x \in calls' : \E y \in calls : SameCall(x, y)
    BY <2>1, Loaded
  <2> QED
    BY <1>3, <2>2
<1>8. ASSUME NEW call, Sending(call) PROVE DeleteInv'
  <2>1. calls' = calls \cup {call} /\ call.n = presses /\ UNCHANGED officeVars
    BY <1>8 DEF Sending, Aside
  <2>2. \A d \in calls : /\ d.n < presses'
                         /\ d.op = "delete" => d.body.others0 <= others' /\ Undisturbed(d, calls)'
    BY <1>1, Disturbs DEF After
  <2>3. call.n < presses'
    BY <1>1, <2>1 DEF TypesInv
  <2>4. ASSUME call.op = "delete" PROVE call.body.others0 <= others' /\ Undisturbed(call, calls)'
    <3>1. /\ call.on = page.id /\ Current # Nothing
          /\ call.body.published = Published /\ call.body.others0 = others
          /\ call.body.rest => AtRest /\ EventQ(page.id) \notin aged /\ ~Failed(cache, EventQ(page.id))
      BY <1>8, <2>4 DEF Sending
    <3>2. page.at = "editor"
      BY <1>8, <2>4 DEF Sending, ScreenOf, EventOps
    <3>3. others \in Nat
      BY OfficeAssumption DEF TypesInv, OfficeTypeOK
    <3>4. ASSUME call.body.rest
          PROVE  /\ \A d \in calls' : d = call
                 /\ page.id \in DOMAIN events => events[page.id].published = call.body.published
      <4>1. calls = {}
        BY <3>1, <3>4 DEF AtRest, Quiet
      <4>2. page.id \in DOMAIN events => events[page.id].published = Published
        BY <3>1, <3>2, <3>4, ModalIsTrue
      <4> QED
        BY <2>1, <3>1, <4>1, <4>2
    <3>5. events' = events
      BY <2>1 DEF officeVars, logVars
    <3> QED
      BY <1>1, <3>1, <3>3, <3>4, <3>5 DEF Undisturbed
  <2> QED
    BY <2>1, <2>2, <2>3, <2>4 DEF DeleteInv
<1> QED
  BY <1>4, <1>5, <1>6, <1>7, <1>8 DEF Pressed

\* What leaves the events alone, and the calls as they were or seen from elsewhere.
LEMMA DeleteSeen ==
  ASSUME TypesInv, DeleteInv, UNCHANGED <<presses, others, events>>, NEW cs, Moved(calls', cs),
         \A d \in cs : \E c \in calls : After(d, c),
         (\A c, d \in calls : c = d) => \A c, d \in cs : c = d
  PROVE  DeleteInv'
<1>1. \A d \in calls' : \E c \in calls : After(d, c)
  BY DEF Moved, After, SameCall
<1>2. (\A c, d \in calls : c = d) => \A c, d \in calls' : c = d
  BY DEF Moved
<1> QED
  BY <1>1, <1>2, DeleteKept

LEMMA DeleteLoaded ==
  ASSUME TypesInv, DeleteInv, UNCHANGED <<presses, others, events>>, NEW p, PageOK(p),
         NEW cs \in SUBSET calls, Reloaded(p, cs)
  PROVE  DeleteInv'
<1>1. \A x \in cs : IsCall(x)
  BY DEF TypesInv
<1>2. /\ \A x \in calls' : \E y \in cs : SameCall(x, y)
      /\ (\A x, y \in cs : x = y) => \A x, y \in calls' : x = y
  BY <1>1, Loaded
<1>3. \A d \in calls' : \E c \in calls : After(d, c)
  BY <1>2 DEF After, SameCall
<1>4. (\A c, d \in calls : c = d) => \A c, d \in calls' : c = d
  BY <1>2
<1> QED
  BY <1>3, <1>4, DeleteKept

LEMMA DeleteArrived ==
  ASSUME TypesInv, DeleteInv, NEW q, Arrive(q)
  PROVE  DeleteInv'
<1>1. UNCHANGED <<presses, others, events>>
  BY DEF Arrive, officeVars, logVars
<1>2. CASE Reloaded(LoginPage, calls)
  BY <1>1, <1>2, DeleteLoaded, PagesTyped
<1>3. CASE ~Reloaded(LoginPage, calls)
  <2>1. PICK entries \in {[cache EXCEPT ![q] = Ended(@)]} : Settle(page, entries, calls, {}, owed)
    BY <1>3 DEF Arrive
  <2>2. CacheOK(entries)
    BY <2>1, EndedTyped DEF Arrive, CacheOK, TypesInv
  <2>3. PICK fresh : CacheOK(fresh) /\ Show(page, fresh, calls \cup {})
    BY <2>1, <2>2, Settled
  <2>4. calls \cup {} = calls
    OBVIOUS
  <2>5. Moved(calls', calls)
    BY <2>3, <2>4, Shown DEF TypesInv
  <2> QED
    BY <1>1, <2>5, DeleteSeen DEF After
<1> QED
  BY <1>2, <1>3

LEMMA DeleteCalled ==
  ASSUME TypesInv, DeleteInv, (\E c : LoseCall(c)) \/ (\E c, d : Handling(c, d))
  PROVE  DeleteInv'
<1>1. ASSUME NEW c, LoseCall(c) PROVE DeleteInv'
  <2>1. PICK d : /\ c \in calls /\ calls' = (calls \ {c}) \cup {d}
                 /\ d.op = c.op /\ d.body = c.body /\ d.n = c.n /\ d.on = c.on
                 /\ UNCHANGED <<officeVars, presses>>
    BY <1>1, LosesCall
  <2>2. UNCHANGED <<presses, others, events>> /\ After(d, c)
    BY <2>1 DEF officeVars, logVars, After
  <2>3. \A x \in calls' : \E y \in calls : After(x, y)
    BY <2>1, <2>2 DEF After
  <2>4. (\A x, y \in calls : x = y) => \A x, y \in calls' : x = y
    BY <2>1
  <2> QED
    BY <2>2, <2>3, <2>4, DeleteKept
<1>2. ASSUME NEW c, NEW d, Handling(c, d) PROVE DeleteInv'
  <2>1. /\ c \in calls /\ calls' = (calls \ {c}) \cup {d}
        /\ d.op = c.op /\ d.body = c.body /\ d.n = c.n
        /\ c.op = "delete" => d.on = c.on
        /\ UNCHANGED <<presses, others>>
        /\ c.op = "delete" => \A e \in DOMAIN events' : /\ e \in DOMAIN events
                                                        /\ events'[e].published = events[e].published
    BY <1>2 DEF Handling, TablesKept
  <2>2. \A x \in calls' : \E y \in calls : After(x, y)
    BY <2>1 DEF After
  <2>3. (\A x, y \in calls : x = y) => \A x, y \in calls' : x = y
    BY <2>1
  <2> QED
    BY <2>1, <2>2, <2>3, DeleteKept
<1> QED
  BY <1>1, <1>2

LEMMA DeleteEnded ==
  ASSUME TypesInv, DeleteInv, NEW c, NEW p, NEW more, Ending(c, p, more)
  PROVE  DeleteInv'
<1>1. c \in calls /\ Finish(c, p, more) /\ PageOK(p) /\ FollowedBy(c, p, more)
  BY DEF Ending
<1>2. UNCHANGED <<presses, others, events>>
  BY <1>1, Finished DEF officeVars, logVars
<1>3. CASE calls' = calls \ {c}
  <2>1. \A x \in calls' : \E y \in calls : After(x, y)
    BY <1>3 DEF After
  <2> QED
    BY <1>2, <1>3, <2>1, DeleteKept
<1>4. CASE Reloaded(LoginPage, calls \ {c})
  BY <1>2, <1>4, DeleteLoaded, PagesTyped
<1>5. CASE Settle(p, cache, calls \ {c}, more, owed \cup Invalidates(c.op))
  <2> DEFINE cs == (calls \ {c}) \cup more
  <2>1. CacheOK(cache)
    BY DEF TypesInv
  <2>2. PICK fresh : CacheOK(fresh) /\ Show(p, fresh, cs)
    BY <1>5, <2>1, Settled
  <2>3. more = {} \/ (\E d : /\ more = {d} /\ IsCall(d) /\ d.op = "publish"
                              /\ d.from = c.from /\ d.n = c.n /\ c.op \in Saving)
    BY <1>1 DEF FollowedBy
  <2>4. (\A x \in cs : IsCall(x)) /\ OnScreenOf(cs, page.at)
    BY <1>1, <2>3 DEF TypesInv, OnScreenOf, ScreenOf, Saving, EventOps, EntryOps, AvisosOps, TeamOps
  <2>5. \A x \in cs : \E y \in calls : After(x, y)
    BY <1>1, <2>3 DEF After
  <2>6. (\A x, y \in calls : x = y) => \A x, y \in cs : x = y
    BY <1>1, <2>3
  <2> HIDE DEF cs
  <2>7. Moved(calls', cs)
    BY <1>1, <2>2, <2>4, Shown DEF TypesInv
  <2> QED
    BY <1>2, <2>5, <2>6, <2>7, DeleteSeen
<1> QED
  BY <1>1, <1>3, <1>4, <1>5, Finished

LEMMA DeleteStart == PanelInit => DeleteInv
  BY FirstLoad DEF DeleteInv

LEMMA DeleteTaken ==
  ASSUME TypesInv, FreshInv, DeleteInv, [PanelNext]_panelVars
  PROVE  DeleteInv'
<1>1. ASSUME UNCHANGED <<presses, others, events, calls>> PROVE DeleteInv'
  BY <1>1, DeleteKept DEF After
<1>2. CASE UNCHANGED panelVars
  BY <1>1, <1>2 DEF panelVars, pageVars, officeVars, logVars
<1>3. ASSUME NEW c, SignsOut(c) PROVE DeleteInv'
  <2>1. UNCHANGED <<presses, others, events>> /\ PageOK(LoginPage) /\ Reloaded(LoginPage, calls \ {c})
    BY <1>3, PagesTyped DEF SignsOut, officeVars, logVars
  <2> QED
    BY <2>1, DeleteLoaded
<1>4. ASSUME NEW q, Serve(q) \/ LoseQuery(q) \/ Forget(q) PROVE DeleteInv'
  BY <1>1, <1>4 DEF Serve, LoseQuery, Forget, officeVars, logVars
<1>5. CASE Poll
  BY <1>1, <1>5 DEF Poll, officeVars, logVars
<1>6. CASE Elsewhere
  <2>1. UNCHANGED <<calls, presses>> /\ others' = others + 1
    BY <1>6 DEF Elsewhere, Others
  <2>2. others \in Nat
    BY OfficeAssumption DEF TypesInv, OfficeTypeOK
  <2> SUFFICES ASSUME NEW c \in calls
               PROVE  /\ c.n < presses
                      /\ c.op = "delete" => c.body.others0 <= others' /\ others' # c.body.others0
    BY <2>1 DEF DeleteInv, Undisturbed
  <2>3. c.op = "delete" => c.body.others0 <= others /\ c.body.others0 \in Nat
    BY OfficeAssumption DEF DeleteInv, TypesInv, IsCall, Modal
  <2> QED
    BY <2>1, <2>2, <2>3 DEF DeleteInv
<1>7. ASSUME NEW k, Announcement(k) \/ Delivery(k) PROVE DeleteInv'
  BY <1>1, <1>7 DEF Announcement, Delivery, Announce, Deliver, Behind, logVars
<1>8. CASE Meanwhile
  BY <1>6, <1>7, <1>8 DEF Meanwhile
<1>9. CASE PanelNext
  BY <1>3, <1>4, <1>5, <1>8, <1>9, Steps, DeletePressed, DeleteArrived, DeleteCalled, DeleteEnded
<1> QED
  BY <1>2, <1>9

\* The server takes an event off for good for a delete that asks it to, or
\* for others.
LEMMA Deletes ==
  ASSUME TypesInv, [PanelNext]_panelVars, NEW e \in deleted' \ deleted
  PROVE  \/ others' = others + 1
         \/ \E c \in calls : /\ c.op = "delete" /\ c.on = e /\ others' = others
                             /\ e \in DOMAIN events /\ ~(events[e].published /\ c.body.notify)
<1>1. ASSUME UNCHANGED officeVars \/ UNCHANGED logVars PROVE FALSE
  BY <1>1 DEF officeVars, logVars
<1>2. CASE UNCHANGED panelVars
  BY <1>1, <1>2 DEF panelVars
<1>3. CASE DeskPress \/ EntryPress \/ AvisosPress \/ TeamPress
  <2>1. Pressed \/ OpenLink
    BY <1>3, Presses
  <2>2. UNCHANGED officeVars \/ UNCHANGED logVars
    BY <2>1 DEF Pressed, OpenLink, Typing, Closing, Sending, Turning, Turn, Aside
  <2> QED
    BY <1>1, <2>2
<1>4. CASE Network \/ Poll
  <2>1. UNCHANGED officeVars
    BY <1>4 DEF Network, Serve, LoseQuery, Arrive, Forget, LoseCall, Poll
  <2> QED
    BY <1>1, <2>1
<1>5. CASE Meanwhile
  <2>1. ASSUME NEW k, Announcement(k) \/ Delivery(k) PROVE UNCHANGED logVars
    BY <2>1 DEF Announcement, Delivery, Announce, Deliver
  <2>2. Elsewhere => others' = others + 1
    BY DEF Elsewhere, Others
  <2> QED
    BY <1>1, <1>5, <2>1, <2>2 DEF Meanwhile
<1>6. ASSUME NEW c, NEW p, NEW more, Ending(c, p, more) PROVE FALSE
  BY <1>1, <1>6, Finished DEF Ending
<1>7. ASSUME NEW c, NEW d, Handling(c, d), c.op \notin EventOps PROVE FALSE
  BY <1>1, <1>7 DEF Handling, TablesKept
<1>8. ASSUME NEW c \in calls, HandleEvent(c)
      PROVE  \E x \in calls : /\ x.op = "delete" /\ x.on = e /\ others' = others
                              /\ e \in DOMAIN events /\ ~(events[e].published /\ x.body.notify)
  <2>1. SignedIn /\ Targets(c) # {}
    BY <1>1, <1>8 DEF HandleEvent, Refuse
  <2>2. PICK t \in Targets(c) : Apply(c, t) /\ others' = others
    BY <1>8, <2>1 DEF HandleEvent
  <2>3. c.op \in EventOps
    BY <1>8 DEF HandleEvent
  <2>4. CASE c.op # "delete"
    <3>1. UNCHANGED deleted
      BY <2>2, <2>3, <2>4 DEF EventOps, Apply, CreateEvent, UpdateEvent, PublishEvent, UnpublishEvent
    <3> QED
      BY <3>1
  <2>5. CASE c.op = "delete"
    <3>1. DeleteEvent(t, c.body.notify) /\ t = c.on
      BY <2>2, <2>5 DEF Apply, Targets
    <3>2. t \in DOMAIN events /\ ~(events[t].published /\ c.body.notify) /\ e = t
      BY <3>1 DEF DeleteEvent
    <3> QED
      BY <2>2, <2>5, <3>1, <3>2
  <2> QED
    BY <2>4, <2>5
<1>9. CASE DeskStep
  <2>1. PICK c \in calls : HandleEvent(c) \/ FinishEvent(c)
    BY <1>9 DEF DeskStep
  <2> QED
    BY <1>6, <1>8, <2>1, EventEnds
<1>10. CASE EntryStep
  <2>1. PICK c \in calls : HandleEntry(c) \/ FinishEntry(c)
    BY <1>10 DEF EntryStep
  <2>2. CASE HandleEntry(c)
    BY <1>1, <2>2 DEF HandleEntry
  <2>3. CASE FinishEntry(c)
    BY <1>1, <1>6, <2>3, EntryEnds
  <2> QED
    BY <2>1, <2>2, <2>3
<1>11. CASE AvisosStep
  <2>1. PICK c \in calls : HandleAvisos(c) \/ FinishAvisos(c)
    BY <1>11 DEF AvisosStep
  <2>2. CASE HandleAvisos(c)
    <3>1. c.op \notin EventOps
      BY <2>2 DEF HandleAvisos, AvisosOps, EventOps
    <3>2. \E d : Handling(c, d)
      BY <2>2, AvisosHandled
    <3> QED
      BY <1>7, <3>1, <3>2
  <2>3. CASE FinishAvisos(c)
    BY <1>6, <2>3, AvisosEnds
  <2> QED
    BY <2>1, <2>2, <2>3
<1>12. CASE TeamStep
  <2>1. PICK c \in calls : HandleTeam(c) \/ FinishTeam(c)
    BY <1>12 DEF TeamStep
  <2>2. CASE HandleTeam(c)
    <3>1. c.op \notin EventOps
      BY <2>2 DEF HandleTeam, TeamOps, EventOps
    <3>2. \E d : Handling(c, d)
      BY <2>2, TeamHandled
    <3> QED
      BY <1>7, <3>1, <3>2
  <2>3. CASE FinishTeam(c)
    BY <1>6, <2>3, TeamEnds
  <2> QED
    BY <2>1, <2>2, <2>3
<1> QED
  BY <1>2, <1>3, <1>4, <1>5, <1>9, <1>10, <1>11, <1>12 DEF PanelNext

(***************************************************************************)
(* A delete confirmed at rest and handled before anything else happened    *)
(* takes an event off the calendar without a word only if the modal said   *)
(* it was a draft or its box was cleared (EventosList.tsx, DeleteEvent of  *)
(* admin_events.go).                                                       *)
(***************************************************************************)
THEOREM NothingDeletedSilently == PanelSpec => NoSilentDeletion
<1> DEFINE Inv == TypesInv /\ FreshInv /\ DeleteInv
<1>1. PanelInit => Inv
  BY InitTypes, FreshStart, DeleteStart
<1>2. Inv /\ [PanelNext]_panelVars => Inv'
  BY TypesStep, FreshTaken, DeleteTaken
<1>3. Inv /\ [PanelNext]_panelVars =>
        [\A e \in deleted' \ deleted, c \in calls :
           /\ c.op = "delete" /\ c.on = e /\ c.body.rest
           /\ others' = c.body.others0 /\ presses = c.n + 1
           /\ OnAir(events[e])
           => c.body.published /\ ~c.body.notify]_panelVars
  <2> SUFFICES ASSUME Inv, [PanelNext]_panelVars, NEW e \in deleted' \ deleted, NEW c \in calls,
                      c.op = "delete", c.on = e, c.body.rest, others' = c.body.others0,
                      presses = c.n + 1, OnAir(events[e])
               PROVE  c.body.published /\ ~c.body.notify
    OBVIOUS
  <2>1. c.body.others0 <= others /\ Undisturbed(c, calls)
    BY DEF DeleteInv
  <2>2. others \in Nat
    BY OfficeAssumption DEF TypesInv, OfficeTypeOK
  <2>3. PICK x \in calls : /\ x.op = "delete" /\ x.on = e /\ others' = others
                           /\ e \in DOMAIN events /\ ~(events[e].published /\ x.body.notify)
    BY <2>1, <2>2, Deletes
  <2>4. /\ x = c
        /\ c.on \in DOMAIN events => events[c.on].published = c.body.published
    BY <2>1, <2>3 DEF Undisturbed
  <2>5. e \in DOMAIN events /\ events[e].published
    BY <2>3 DEF OnAir
  <2> QED
    BY <2>3, <2>4, <2>5
<1> QED
  BY <1>1, <1>2, <1>3, PTL DEF PanelSpec, NoSilentDeletion

-----------------------------------------------------------------------------
(* What is being typed.                                                    *)

\* While the form is on the screen, only typing in it changes it.
LEMMA FormIsHers ==
  ASSUME TypesInv, [PanelNext]_panelVars, page.at = "editor", page'.at = "editor", page.form # Nothing,
         ~UNCHANGED <<officeVars, cache, calls>>
  PROVE  page'.form = page.form
<1>1. ASSUME UNCHANGED page PROVE page'.form = page.form
  BY <1>1
<1>2. CASE UNCHANGED panelVars
  BY <1>1, <1>2 DEF panelVars, pageVars
<1>3. ASSUME NEW p, PageOK(p), NEW c, CacheOK(c),
             NEW cs, \A x \in cs : IsCall(x), OnScreenOf(cs, page.at), Show(p, c, cs),
             p.at = "editor" => p.form = page.form
      PROVE  page'.form = page.form
  BY <1>3, ShownFrom
<1>4. ~Reloaded(LoginPage, calls) /\ \A c : ~Reloaded(LoginPage, calls \ {c})
  BY DEF Reloaded, LoginPage
<1>5. CASE Pressed
  <2>1. CASE Typing
    BY <2>1 DEF Typing, Aside
  <2>2. CASE Closing \/ \E call : Sending(call)
    BY <2>2 DEF Closing, Sending
  <2>3. ASSUME NEW p, Turning(p) PROVE page'.form = page.form
    <3>1. PageOK(p) /\ Show(p, cache, calls) /\ p.at # "editor"
      BY <2>3 DEF Turning, Turn
    <3> QED
      BY <1>3, <3>1 DEF TypesInv
  <2> QED
    BY <1>5, <2>1, <2>2, <2>3 DEF Pressed
<1>6. ASSUME NEW q, Arrive(q) PROVE page'.form = page.form
  <2>1. PICK entries \in {[cache EXCEPT ![q] = Ended(@)]} : Settle(page, entries, calls, {}, owed)
    BY <1>4, <1>6 DEF Arrive
  <2>2. CacheOK(entries)
    BY <1>6, <2>1, EndedTyped DEF Arrive, CacheOK, TypesInv
  <2>3. PICK fresh : CacheOK(fresh) /\ Show(page, fresh, calls \cup {})
    BY <2>1, <2>2, Settled
  <2>4. calls \cup {} = calls
    OBVIOUS
  <2> QED
    BY <1>3, <2>3, <2>4 DEF TypesInv
<1>7. ASSUME NEW c, NEW d, Handling(c, d) PROVE page'.form = page.form
  <2>1. page \in AtEditor
    BY EditorKnows
  <2> QED
    BY <1>7, <2>1 DEF Handling, AtEditor
<1>8. ASSUME NEW c, NEW p, NEW more, Ending(c, p, more) PROVE page'.form = page.form
  <2>1. c \in calls /\ Finish(c, p, more) /\ PageOK(p) /\ Turned(c, p) /\ FollowedBy(c, p, more)
    BY <1>8 DEF Ending
  <2>2. CASE UNCHANGED page
    BY <2>2
  <2>3. CASE Settle(p, cache, calls \ {c}, more, owed \cup Invalidates(c.op))
    <3> DEFINE cs == (calls \ {c}) \cup more
    <3>1. CacheOK(cache)
      BY DEF TypesInv
    <3>2. PICK fresh : CacheOK(fresh) /\ Show(p, fresh, cs)
      BY <2>3, <3>1, Settled
    <3>3. (\A x \in cs : IsCall(x)) /\ OnScreenOf(cs, page.at)
      BY <2>1 DEF FollowedBy, TypesInv, OnScreenOf, ScreenOf, Saving, EventOps, EntryOps, AvisosOps, TeamOps
    <3>4. p.at = "editor" => p.form = page.form
      BY <2>1 DEF Turned
    <3> HIDE DEF cs
    <3> QED
      BY <1>3, <2>1, <3>2, <3>3, <3>4
  <2> QED
    BY <1>4, <2>1, <2>2, <2>3, Finished
<1>9. CASE Meanwhile
  BY <1>1, <1>9 DEF Meanwhile, Elsewhere, Announcement, Delivery, Behind
<1>10. ASSUME NEW q, Serve(q) \/ LoseQuery(q) \/ Forget(q) PROVE page'.form = page.form
  BY <1>1, <1>10 DEF Serve, LoseQuery, Forget
<1>11. CASE Poll
  BY <1>1, <1>11 DEF Poll
<1>12. ASSUME NEW c, LoseCall(c) PROVE page'.form = page.form
  BY <1>1, <1>12 DEF LoseCall
<1>13. ~OpenLink /\ \A c : ~SignsOut(c)
  BY <1>4 DEF OpenLink, SignsOut
<1> QED
  BY <1>2, <1>5, <1>6, <1>7, <1>8, <1>9, <1>10, <1>11, <1>12, <1>13, Steps

(***************************************************************************)
(* While the editor stays open no answer, refetch or error rewrites the    *)
(* form: it is seeded once, when its event has come (EventoEditor.tsx).    *)
(***************************************************************************)
THEOREM TypedIsKept == PanelSpec => NothingTypedIsLost
<1>1. PanelInit => TypesInv
  BY InitTypes
<1>2. TypesInv /\ [PanelNext]_panelVars => TypesInv'
  BY TypesStep
<1>3. TypesInv /\ [PanelNext]_panelVars =>
        [page.at = "editor" /\ Here(page') = Here(page) /\ page.form # Nothing
         /\ page'.form # page.form
         => UNCHANGED <<officeVars, cache, calls>>]_panelVars
  BY FormIsHers DEF Here
<1> QED
  BY <1>1, <1>2, <1>3, PTL DEF PanelSpec, NothingTypedIsLost
=============================================================================
